---- MODULE Spec2Model ----
(***************************************************************************)
(* Reference-counted COM handles of dmitigr::wincom (object.hpp):          *)
(* Unknown_api / Ptr and Basic_com_object, with the facade methods that    *)
(* reach the wrapped interface through api() and detail::api().            *)
(*                                                                         *)
(* A handle is a slot holding the pointer member api_.  Resources are the  *)
(* externally reference-counted objects the handles point at; their count  *)
(* changes only through AddRef, Release and QueryInterface.  Every action  *)
(* is one call made by application code; `calls` is the sequence of calls  *)
(* into resources that this call issued, and `last` says which call it     *)
(* was, on which operands, and how it ended.                               *)
(*                                                                         *)
(* The event subscriptions (Advise_sink_connection, rdp::Basic_rdp_peer,   *)
(* rdp::Client, rdpts::Client) and the WMI value cells (wmi::ClassObject:: *)
(* Value) have their own variables and their own specifications, SpecSub   *)
(* and SpecVal; SpecErr collects the failures all of them raise.           *)
(***************************************************************************)
EXTENDS Integers, Sequences, FiniteSets, TLC

\* ---------------------------------------------------------------- bounds
NumRes == 2
NumUa == 2
NumBco == 2
MaxLive == 2
MaxRaw == 1
MaxAcquired == 3
NumSubs == 2
NumTokens == 2
MaxHeld == 4
NumVals == 1
MaxMade == 2
NumThreads == 2
MaxSinkRefs == 3
MaxItems == 1

\* ------------------------------------------------------------ vocabulary
Null == 0
Res == 1..NumRes
Ptrs == {Null} \cup Res

\* Slot 0 is the local object `tmp` of the assignment operators.
Tmp == 0
UaSlots == 1..NumUa
BcoSlots == (NumUa + 1)..(NumUa + NumBco)
Slots == UaSlots \cup BcoSlots
AllSlots == {Tmp} \cup Slots

\* Interface ids a query may request.
Iids == {"IUnknown", "IMarshal"}

\* What a resource answers to QueryInterface: resource 1 implements every
\* interface, the others only IUnknown.
Implements(r) == IF r = 1 THEN Iids ELSE {"IUnknown"}

S_OK == 0
E_FAIL == -2147467259
E_NOINTERFACE == -2147467262
S_FALSE == 1
E_OUTOFMEMORY == -2147024882

\* The FAILED macro: an HRESULT is a 32-bit signed integer and a failure
\* has the severity bit, its sign, set.
FAILED(hr) == hr < 0

VARIABLES
  api_,        \* api_[x]: the pointer member of handle x
  live,        \* the handles constructed and not yet destroyed
  ref_count,   \* ref_count[r]: the external reference count of resource r
  raw,         \* raw[r]: references to r the caller holds as raw pointers
  acquired,    \* acquired[r]: references to r handles came to own, ever
  released,    \* released[r]: Release calls handles issued on r, ever
  calls,       \* calls into resources issued by the last operation
  last         \* the last operation, its operands and its outcome

hvars == <<api_, live, ref_count, raw, acquired, released, calls, last>>

VARIABLES
  sub,         \* sub[i]: the members of subscription object i
  held,        \* references on the connection objects not yet released
  advised,     \* the tokens registered at the connection point
  trace,       \* the calls and deletions of the last subscription operation
  lastS        \* the last subscription operation, its inputs and outcome

svars == <<sub, held, advised, trace, lastS>>

VARIABLES
  val,         \* val[v]: the members of Value object v
  made,        \* payloads handed out by IWbemClassObject::Get, ever
  cleared,     \* VariantClear calls issued, ever
  vtrace,      \* the calls of the last value operation
  lastV        \* the last value operation, its inputs and outcome

vvars == <<val, made, cleared, vtrace, lastV>>

VARIABLES
  errA,        \* the failure raised before the last one
  errB         \* the last failure raised

evars == <<errA, errB>>

VARIABLES
  tapi,        \* tapi[t][k]: the pointer of handle k of thread t
  tlive,       \* tlive[t]: the handles of thread t that exist
  tcount,      \* the reference count of the resource the threads share
  pc           \* pc[t]: the operation thread t is in, and its next step

cvars == <<tapi, tlive, tcount, pc>>

VARIABLES
  ax,          \* ax[i]: an rdpts::Client, its ActiveX object and its window
  lastA        \* the last operation on an rdpts::Client or its window

avars == <<ax, lastA>>

VARIABLES
  sink_ref_count_,  \* sink_ref_count_[k]: ref_count_ of the Advise_sink k
  lastR             \* the last call on an Advise_sink and what it returned

kvars == <<sink_ref_count_, lastR>>

VARIABLES
  is_open_,    \* is_open_[i]: the flag of rdp::Server i
  recent,      \* recent[i]: the last external call of server i that succeeded
  session,     \* session[i]: the last Open or Close of server i that succeeded
  lastSrv      \* the last operation on a server, its calls and outcome

rvars == <<is_open_, recent, session, lastSrv>>

nvars == <<cvars, avars, kvars, rvars>>

vars == <<hvars, svars, vvars, evars, nvars>>

\* ------------------------------------------------------ machine records
\* The operators below transform a record m: the handles' pointers, the
\* resources' counts, the calls issued so far, the outcome ("ok", the
\* exception thrown, or "terminate") and the value returned.
Machine ==
  [api_ |-> api_, rc |-> ref_count, calls |-> <<>>, outcome |-> "ok",
   result |-> Null]

Call(fn, r, hr) == [fn |-> fn, r |-> r, hr |-> hr]

\* IUnknown::AddRef of the wrapped resource.
IUnknown_AddRef(m, r) ==
  [m EXCEPT !.rc[r] = @ + 1,
            !.calls = Append(@, Call("AddRef", r, S_OK))]

\* IUnknown::Release of the wrapped resource.  No reachable state calls it
\* on a count of zero (that would be a call on a destroyed object).
IUnknown_Release(m, r) ==
  [m EXCEPT !.rc[r] = IF @ > 0 THEN @ - 1 ELSE 0,
            !.calls = Append(@, Call("Release", r, S_OK))]

\* IUnknown::QueryInterface of the wrapped resource: on success the out
\* pointer denotes the same object with one more reference, otherwise it is
\* null and the count is untouched.
IUnknown_QueryInterface(m, r, iid) ==
  IF iid \in Implements(r)
  THEN [m |-> [m EXCEPT !.rc[r] = @ + 1,
                        !.calls = Append(@, Call("QueryInterface", r, S_OK))],
        api |-> r]
  ELSE [m |-> [m EXCEPT !.calls =
                 Append(@, Call("QueryInterface", r, E_NOINTERFACE))],
        api |-> Null]

\* Any other method of the wrapped interface, called by a facade.
Method(m, r, fn) == [m EXCEPT !.calls = Append(@, Call(fn, r, S_OK))]

\* exceptions.hpp check(): throws std::logic_error unless the condition holds.
\* check, the failure raised as std::runtime_error.
check_RuntimeError(m, condition) ==
  IF ~condition THEN [m EXCEPT !.outcome = "runtime_error"] ELSE m

check(m, condition) ==
  IF ~condition THEN [m EXCEPT !.outcome = "logic_error"] ELSE m

\* A noexcept function: an exception leaving it calls std::terminate.
Noexcept(m) ==
  IF m.outcome # "ok" THEN [m EXCEPT !.outcome = "terminate"] ELSE m

\* ------------------------------------------------------------ Unknown_api
\* The destructor forgets the Release.
Unknown_api_dtor_NoRelease(m, x) == [m EXCEPT !.api_[x] = Null]

Unknown_api_dtor(m, x) ==
  IF m.api_[x] # Null
  THEN [IUnknown_Release(m, m.api_[x]) EXCEPT !.api_[x] = Null]
  ELSE m

Unknown_api_ctor_default(m, x) == [m EXCEPT !.api_[x] = Null]

\* The constructor rejects a null pointer.
Unknown_api_ctor_raw_Checked(m, x, api) ==
  IF api = Null THEN [m EXCEPT !.outcome = "logic_error"]
  ELSE [m EXCEPT !.api_[x] = api]

Unknown_api_ctor_raw(m, x, api) == [m EXCEPT !.api_[x] = api]

\* The move constructor leaves the source pointing at the resource.
Unknown_api_ctor_move_KeepSource(m, x, rhs) ==
  [m EXCEPT !.api_[x] = m.api_[rhs]]

Unknown_api_ctor_move(m, x, rhs) ==
  LET m1 == [m EXCEPT !.api_[x] = m.api_[rhs]]
  IN [m1 EXCEPT !.api_[rhs] = Null]

\* The copy constructor forgets the AddRef.
Unknown_api_ctor_copy_NoAddRef(m, x, rhs) ==
  [m EXCEPT !.api_[x] = m.api_[rhs]]

Unknown_api_ctor_copy(m, x, rhs) ==
  LET m1 == [m EXCEPT !.api_[x] = m.api_[rhs]]
  IN IF m1.api_[x] # Null THEN IUnknown_AddRef(m1, m1.api_[x]) ELSE m1

Unknown_api_swap(m, x, rhs) ==
  [m EXCEPT !.api_[x] = m.api_[rhs], !.api_[rhs] = m.api_[x]]

\* Unknown_api_assign_move, the previous resource of the target not released.
Unknown_api_assign_move_NoRelease(m, x, rhs) ==
  [m EXCEPT !.api_[x] = m.api_[rhs], !.api_[rhs] = Null]

Unknown_api_assign_move(m, x, rhs) ==
  Unknown_api_dtor(
    Unknown_api_swap(Unknown_api_ctor_move(m, Tmp, rhs), x, Tmp), Tmp)

\* Unknown_api_assign_copy, the target released before the source is copied.
Unknown_api_assign_copy_ReleaseFirst(m, x, rhs) ==
  Unknown_api_ctor_copy(Unknown_api_dtor(m, x), x, rhs)

Unknown_api_assign_copy(m, x, rhs) ==
  Unknown_api_dtor(
    Unknown_api_swap(Unknown_api_ctor_copy(m, Tmp, rhs), x, Tmp), Tmp)

Unknown_api_api(m, x) ==
  LET c == check(m, m.api_[x] # Null)
  IN IF c.outcome = "ok" THEN [c EXCEPT !.result = m.api_[x]] ELSE c

\* query() answers an empty handle instead of throwing.
Unknown_api_query_NoThrow(m, x, unknown, iid) ==
  IF unknown = Null
  THEN [m EXCEPT !.outcome = "invalid_argument"]
  ELSE LET q == IUnknown_QueryInterface(m, unknown, iid)
       IN Unknown_api_ctor_raw(q.m, x, q.api)

\* query() counts the reference QueryInterface already counted.
Unknown_api_query_ExtraAddRef(m, x, unknown, iid) ==
  IF unknown = Null
  THEN [m EXCEPT !.outcome = "invalid_argument"]
  ELSE LET q == IUnknown_QueryInterface(m, unknown, iid)
       IN IF q.api = Null
          THEN [q.m EXCEPT !.outcome = "runtime_error"]
          ELSE Unknown_api_ctor_raw(IUnknown_AddRef(q.m, q.api), x, q.api)

Unknown_api_query(m, x, unknown, iid) ==
  IF unknown = Null
  THEN [m EXCEPT !.outcome = "invalid_argument"]
  ELSE LET q == IUnknown_QueryInterface(m, unknown, iid)
       IN IF q.api = Null
          THEN [q.m EXCEPT !.outcome = "runtime_error"]
          ELSE Unknown_api_ctor_raw(q.m, x, q.api)

\* -------------------------------------------------------------------- Ptr
Ptr_get(m, x) == [m EXCEPT !.result = m.api_[x]]

Ptr_arrow(m, x) == Ptr_get(m, x)

Ptr_to(m, x, this, iid) == Unknown_api_query(m, x, m.api_[this], iid)

\* ------------------------------------------------------- Basic_com_object
\* The destructor releases twice.
Basic_com_object_dtor_Twice(m, x) ==
  IF m.api_[x] # Null
  THEN [IUnknown_Release(IUnknown_Release(m, m.api_[x]), m.api_[x])
          EXCEPT !.api_[x] = Null]
  ELSE m

Basic_com_object_dtor(m, x) ==
  IF m.api_[x] # Null
  THEN [IUnknown_Release(m, m.api_[x]) EXCEPT !.api_[x] = Null]
  ELSE m

\* The constructor counts the reference it was handed.
Basic_com_object_ctor_raw_AddRef(m, x, api) ==
  LET m1 == [m EXCEPT !.api_[x] = api]
  IN IF api # Null THEN IUnknown_AddRef(m1, api) ELSE m1

Basic_com_object_ctor_raw(m, x, api) == [m EXCEPT !.api_[x] = api]

\* CoCreateInstance answers err and, when err is S_OK, stores a reference to
\* the created object (already counted) in api_.
Basic_com_object_ctor_context(m, x, err, created) ==
  LET m1 == IF err = S_OK /\ created # Null
            THEN [m EXCEPT !.rc[created] = @ + 1,
                           !.calls = Append(@, Call("CoCreateInstance", created, err)),
                           !.api_[x] = created]
            ELSE [m EXCEPT !.calls = Append(@, Call("CoCreateInstance", Null, err)),
                           !.api_[x] = Null]
  IN IF err # S_OK THEN [m1 EXCEPT !.outcome = "Win_error"]
     ELSE IF m1.api_[x] = Null THEN [m1 EXCEPT !.outcome = "logic_error"]
     ELSE m1

Basic_com_object_ctor_move(m, x, rhs) ==
  LET m1 == [m EXCEPT !.api_[x] = m.api_[rhs]]
  IN [m1 EXCEPT !.api_[rhs] = Null]

Basic_com_object_swap(m, x, rhs) ==
  [m EXCEPT !.api_[x] = m.api_[rhs], !.api_[rhs] = m.api_[x]]

Basic_com_object_assign_move(m, x, rhs) ==
  Basic_com_object_dtor(
    Basic_com_object_swap(Basic_com_object_ctor_move(m, Tmp, rhs), x, Tmp), Tmp)

Basic_com_object_api(m, x) ==
  Noexcept(LET c == check(m, m.api_[x] # Null)
           IN IF c.outcome = "ok" THEN [c EXCEPT !.result = m.api_[x]] ELSE c)

\* ----------------------------------------------------------------- facades
\* detail::api(com): a noexcept function returning com.api().
detail_api(m, x) ==
  Noexcept(IF x \in UaSlots THEN Unknown_api_api(m, x)
                            ELSE Basic_com_object_api(m, x))

\* rdp::Invitation::revoke: api().put_Revoked(val).
Invitation_revoke(m, x) ==
  LET a == Unknown_api_api(m, x)
  IN IF a.outcome = "ok" THEN Method(a, a.result, "put_Revoked") ELSE a

\* rdp::Invitation::is_revoked: detail::api(*this).get_Revoked(&result).
Invitation_is_revoked(m, x) ==
  LET a == detail_api(m, x)
  IN IF a.outcome = "ok" THEN Method(a, a.result, "get_Revoked") ELSE a

\* firewall::Authorized_application::set_enabled: api().put_Enabled(val).
Authorized_application_set_enabled(m, x) ==
  LET a == Basic_com_object_api(m, x)
  IN IF a.outcome = "ok" THEN Method(a, a.result, "put_Enabled") ELSE a

\* firewall::Authorized_application::is_enabled:
\* detail::api(*this).get_Enabled(&result).
Authorized_application_is_enabled(m, x) ==
  LET a == detail_api(m, x)
  IN IF a.outcome = "ok" THEN Method(a, a.result, "get_Enabled") ELSE a

\* An external method that answers through an out parameter: out is the
\* object it hands back, with one reference counted for the caller, or null.
OutParam(m, r, fn, out) ==
  [m EXCEPT !.rc = IF out # Null THEN [@ EXCEPT ![out] = @ + 1] ELSE @,
            !.calls = Append(@, [fn |-> fn, r |-> r, hr |-> S_OK, out |-> out])]

\* The methods that answer an object through an out parameter.
OutMethods == {"get_ConnectivityInfo", "get_Item", "CreateInvitation"}

\* rdp::Invitation_manager::create_invitation: err is what CreateInvitation
\* returns and invitation the object it hands out; the result is wrapped
\* without a test for null.
Invitation_manager_create_invitation(m, x, this, err, invitation) ==
  LET a == Unknown_api_api(m, this)
  IN IF a.outcome # "ok" THEN a
     ELSE LET b == [a EXCEPT
                      !.rc = IF invitation # Null
                             THEN [@ EXCEPT ![invitation] = @ + 1] ELSE @,
                      !.calls = Append(@, [fn |-> "CreateInvitation",
                                           r |-> a.result, hr |-> err,
                                           out |-> invitation])]
          IN IF err # S_OK THEN [b EXCEPT !.outcome = "Win_error"]
             ELSE Unknown_api_ctor_raw(b, x, invitation)

\* The interface Tcp_connection_info wraps: resource 1 implements it,
\* resource 2 does not.
Tcp_connection_info_iid == "IMarshal"

\* rdp::Attendee::tcp_connection_info: info is what get_ConnectivityInfo
\* answers; a std::runtime_error of query() is caught and an empty handle
\* returned.
Attendee_tcp_connection_info(m, x, this, info) ==
  LET a == detail_api(m, this)
  IN IF a.outcome # "ok" THEN a
     ELSE LET b == OutParam(a, a.result, "get_ConnectivityInfo", info)
              c == check(b, info # Null)
          IN IF c.outcome # "ok" THEN c
             ELSE LET q == Unknown_api_query(c, x, info,
                                             Tcp_connection_info_iid)
                  IN IF q.outcome = "runtime_error"
                     THEN Unknown_api_ctor_default(
                            [q EXCEPT !.outcome = "ok"], x)
                     ELSE q

\* rdp::Invitation_manager::invitation_count:
\* detail::api(*this).get_Count(&result); count is what get_Count answers.
Invitation_manager_invitation_count(m, this, count) ==
  LET a == detail_api(m, this)
  IN IF a.outcome = "ok"
     THEN [Method(a, a.result, "get_Count") EXCEPT !.result = count]
     ELSE a

\* rdp::Invitation_manager::invitation(index): item is what get_Item
\* answers.
Invitation_manager_invitation(m, x, this, index, count, item) ==
  LET n == Invitation_manager_invitation_count(m, this, count)
  IN IF n.outcome # "ok" THEN n
     ELSE IF ~(index < n.result)
     THEN [n EXCEPT !.outcome = "out_of_range"]
     ELSE LET a == detail_api(n, this)
          IN IF a.outcome # "ok" THEN a
             ELSE LET b == OutParam(a, a.result, "get_Item", item)
                      c == check(b, item # Null)
                  IN IF c.outcome # "ok" THEN c
                     ELSE Unknown_api_ctor_raw(c, x, item)

\* ---------------------------------------------------------------- actions
NoOp ==
  [op |-> "init", x |-> Tmp, rhs |-> Tmp, p |-> Null, q |-> Null,
   iid |-> "-", outcome |-> "ok", prev |-> "-"]

\* The sum of f over the resources.
RECURSIVE SumOver(_, _)
SumOver(f, S) ==
  IF S = {} THEN 0
  ELSE LET r == CHOOSE r \in S : TRUE IN f[r] + SumOver(f, S \ {r})

\* References to r that handles came to own through the calls in cs.
Gained(cs, r) ==
  Cardinality({i \in 1..Len(cs) :
     \/ /\ cs[i].r = r
        /\ \/ cs[i].fn = "AddRef"
           \/ /\ cs[i].fn \in {"QueryInterface", "CoCreateInstance"}
              /\ cs[i].hr = S_OK
     \/ cs[i].fn \in OutMethods /\ cs[i].out = r})

Dropped(cs, r) ==
  Cardinality({i \in 1..Len(cs) : cs[i].r = r /\ cs[i].fn = "Release"})

\* The record of an operation op on handle x.
Op(op, x, rhs, p, q, iid) ==
  [op |-> op, x |-> x, rhs |-> rhs, p |-> p, q |-> q, iid |-> iid,
   outcome |-> "ok",
   prev |-> IF op \in {"~Unknown_api", "~Basic_com_object"} /\ last.x = x
            THEN last.op ELSE "-"]

\* The process runs until std::terminate is called.
Running == last.outcome # "terminate"

\* Commit the effect m of operation o; taken is the raw reference the
\* operation took over from the caller (Null when none).
Commit(m, o, taken) ==
  LET acq == [r \in Res |->
                acquired[r] + Gained(m.calls, r) + (IF taken = r THEN 1 ELSE 0)]
  IN /\ SumOver(acq, Res) <= MaxAcquired
     /\ api_' = m.api_
     /\ ref_count' = m.rc
     /\ calls' = m.calls
     /\ acquired' = acq
     /\ released' = [r \in Res |-> released[r] + Dropped(m.calls, r)]
     /\ raw' = [r \in Res |-> IF taken = r THEN raw[r] - 1 ELSE raw[r]]
     /\ last' = [o EXCEPT !.outcome = m.outcome]
     /\ UNCHANGED <<svars, vvars, evars, nvars>>

\* A constructor call on a fresh slot: the object exists iff it returned.
Construct(m, o, taken) ==
  /\ Cardinality(live) < MaxLive
  /\ Commit(m, o, taken)
  /\ live' = IF m.outcome = "ok" THEN live \cup {o.x} ELSE live

\* Raw pointers the caller can pass: null, or a resource it can reach.
RawOwned == {Null} \cup {r \in Res : raw[r] > 0}
Reachable == {Null} \cup {r \in Res : ref_count[r] > 0}

\* An external factory hands the caller one counted reference to r.
Obtain(r) ==
  /\ Running /\ SumOver(raw, Res) < MaxRaw
  /\ ref_count' = [ref_count EXCEPT ![r] = @ + 1]
  /\ raw' = [raw EXCEPT ![r] = @ + 1]
  /\ calls' = <<>>
  /\ last' = Op("obtain", Tmp, Tmp, r, Null, "-")
  /\ UNCHANGED <<api_, live, acquired, released>>
  /\ UNCHANGED <<svars, vvars, evars, nvars>>

\* The caller releases a raw reference itself.
RawRelease(r) ==
  /\ Running /\ raw[r] > 0
  /\ ref_count' = [ref_count EXCEPT ![r] = @ - 1]
  /\ raw' = [raw EXCEPT ![r] = @ - 1]
  /\ calls' = <<>>
  /\ last' = Op("raw_release", Tmp, Tmp, r, Null, "-")
  /\ UNCHANGED <<api_, live, acquired, released>>
  /\ UNCHANGED <<svars, vvars, evars, nvars>>

Call_Unknown_api_ctor_default(x) ==
  /\ Running /\ x \in UaSlots \ live
  /\ Construct(Unknown_api_ctor_default(Machine, x),
               Op("Unknown_api()", x, x, Null, Null, "-"), Null)

Call_Unknown_api_ctor_raw(x, p) ==
  /\ Running /\ x \in UaSlots \ live /\ p \in RawOwned
  /\ Construct(Unknown_api_ctor_raw(Machine, x, p),
               Op("Unknown_api(Api*)", x, x, p, Null, "-"), p)

Call_Unknown_api_ctor_move(x, rhs) ==
  /\ Running /\ x \in UaSlots \ live /\ rhs \in UaSlots \cap live
  /\ Construct(Unknown_api_ctor_move(Machine, x, rhs),
               Op("Unknown_api(Unknown_api&&)", x, rhs, api_[rhs], Null, "-"), Null)

Call_Unknown_api_ctor_copy(x, rhs) ==
  /\ Running /\ x \in UaSlots \ live /\ rhs \in UaSlots \cap live
  /\ Construct(Unknown_api_ctor_copy(Machine, x, rhs),
               Op("Unknown_api(const Unknown_api&)", x, rhs, api_[rhs], Null, "-"), Null)

Call_Unknown_api_assign_move(x, rhs) ==
  /\ Running /\ x \in UaSlots \cap live /\ rhs \in UaSlots \cap live
  /\ Commit(Unknown_api_assign_move(Machine, x, rhs),
            Op("operator=(Unknown_api&&)", x, rhs, api_[rhs], api_[x], "-"), Null)
  /\ UNCHANGED live

Call_Unknown_api_assign_copy(x, rhs) ==
  /\ Running /\ x \in UaSlots \cap live /\ rhs \in UaSlots \cap live
  /\ Commit(Unknown_api_assign_copy(Machine, x, rhs),
            Op("operator=(const Unknown_api&)", x, rhs, api_[rhs], api_[x], "-"), Null)
  /\ UNCHANGED live

Call_Unknown_api_swap(x, rhs) ==
  /\ Running /\ x \in UaSlots \cap live /\ rhs \in UaSlots \cap live
  /\ Commit(Unknown_api_swap(Machine, x, rhs),
            Op("Unknown_api::swap", x, rhs, api_[rhs], api_[x], "-"), Null)
  /\ UNCHANGED live

Call_Unknown_api_dtor(x) ==
  /\ Running /\ x \in UaSlots \cap live
  /\ Commit(Unknown_api_dtor(Machine, x),
            Op("~Unknown_api", x, x, api_[x], Null, "-"), Null)
  /\ live' = live \ {x}

Call_Unknown_api_api(x) ==
  /\ Running /\ x \in UaSlots \cap live
  /\ Commit(Unknown_api_api(Machine, x),
            Op("Unknown_api::api", x, x, api_[x], Null, "-"), Null)
  /\ UNCHANGED live

Call_Unknown_api_query(x, unknown, iid) ==
  /\ Running /\ x \in UaSlots \ live /\ unknown \in Reachable /\ iid \in Iids
  /\ Construct(Unknown_api_query(Machine, x, unknown, iid),
               Op("Unknown_api::query", x, x, unknown, Null, iid), Null)

Call_Ptr_get(x) ==
  /\ Running /\ x \in UaSlots \cap live
  /\ Commit(Ptr_get(Machine, x),
            Op("Ptr::get", x, x, api_[x], Null, "-"), Null)
  /\ UNCHANGED live

Call_Ptr_arrow(x) ==
  /\ Running /\ x \in UaSlots \cap live
  /\ Commit(Ptr_arrow(Machine, x),
            Op("Ptr::operator->", x, x, api_[x], Null, "-"), Null)
  /\ UNCHANGED live

Call_Ptr_to(x, this, iid) ==
  /\ Running /\ x \in UaSlots \ live /\ this \in UaSlots \cap live /\ iid \in Iids
  /\ Construct(Ptr_to(Machine, x, this, iid),
               Op("Ptr::to", x, this, api_[this], Null, iid), Null)

Call_Invitation_revoke(x) ==
  /\ Running /\ x \in UaSlots \cap live
  /\ Commit(Invitation_revoke(Machine, x),
            Op("Invitation::revoke", x, x, api_[x], Null, "-"), Null)
  /\ UNCHANGED live

Call_Invitation_is_revoked(x) ==
  /\ Running /\ x \in UaSlots \cap live
  /\ Commit(Invitation_is_revoked(Machine, x),
            Op("Invitation::is_revoked", x, x, api_[x], Null, "-"), Null)
  /\ UNCHANGED live

Call_Attendee_tcp_connection_info(x, this, info) ==
  /\ Running /\ x \in UaSlots \ live /\ this \in UaSlots \cap live
  /\ info \in Reachable
  /\ Construct(Attendee_tcp_connection_info(Machine, x, this, info),
               Op("Attendee::tcp_connection_info", x, this, info,
                  api_[this], Tcp_connection_info_iid), Null)

\* A call that fails hands out no object.
Call_Invitation_manager_create_invitation(x, this, err, invitation) ==
  /\ Running /\ x \in UaSlots \ live /\ this \in UaSlots \cap live
  /\ err \in {S_OK, S_FALSE, E_FAIL} /\ invitation \in Ptrs
  /\ err # S_OK => invitation = Null
  /\ Construct(Invitation_manager_create_invitation(Machine, x, this, err,
                                                    invitation),
               [op |-> "Invitation_manager::create_invitation", x |-> x,
                rhs |-> this, p |-> invitation, q |-> api_[this],
                iid |-> "-", outcome |-> "ok", prev |-> "-", err |-> err],
               Null)

\* A long: index and count are signed integers of 32 bits.
LONG_MAX == 2147483647
Indexes == {-LONG_MAX, -1, LONG_MAX} \cup 0..MaxItems

Call_Invitation_manager_invitation(x, this, index, count, item) ==
  /\ Running /\ x \in UaSlots \ live /\ this \in UaSlots \cap live
  /\ index \in Indexes /\ count \in 0..MaxItems
  /\ item \in Reachable
  /\ ~(index < count) => item = Null
  /\ Construct(Invitation_manager_invitation(Machine, x, this, index, count,
                                             item),
               [op |-> "Invitation_manager::invitation", x |-> x,
                rhs |-> this, p |-> item, q |-> api_[this], iid |-> "-",
                outcome |-> "ok", prev |-> "-", index |-> index,
                count |-> count], Null)

Call_Basic_com_object_ctor_raw(x, p) ==
  /\ Running /\ x \in BcoSlots \ live /\ p \in RawOwned
  /\ Construct(Basic_com_object_ctor_raw(Machine, x, p),
               Op("Basic_com_object(ObjectInterface*)", x, x, p, Null, "-"), p)

Call_Basic_com_object_ctor_context(x, err, created) ==
  /\ Running /\ x \in BcoSlots \ live
  /\ err \in {S_OK, E_FAIL} /\ created \in Ptrs
  /\ err # S_OK => created = Null
  /\ Construct(Basic_com_object_ctor_context(Machine, x, err, created),
               Op("Basic_com_object(DWORD)", x, x, created, Null, err), Null)

Call_Basic_com_object_ctor_move(x, rhs) ==
  /\ Running /\ x \in BcoSlots \ live /\ rhs \in BcoSlots \cap live
  /\ Construct(Basic_com_object_ctor_move(Machine, x, rhs),
               Op("Basic_com_object(Basic_com_object&&)", x, rhs, api_[rhs], Null, "-"), Null)

Call_Basic_com_object_assign_move(x, rhs) ==
  /\ Running /\ x \in BcoSlots \cap live /\ rhs \in BcoSlots \cap live
  /\ Commit(Basic_com_object_assign_move(Machine, x, rhs),
            Op("operator=(Basic_com_object&&)", x, rhs, api_[rhs], api_[x], "-"), Null)
  /\ UNCHANGED live

Call_Basic_com_object_swap(x, rhs) ==
  /\ Running /\ x \in BcoSlots \cap live /\ rhs \in BcoSlots \cap live
  /\ Commit(Basic_com_object_swap(Machine, x, rhs),
            Op("Basic_com_object::swap", x, rhs, api_[rhs], api_[x], "-"), Null)
  /\ UNCHANGED live

Call_Basic_com_object_dtor(x) ==
  /\ Running /\ x \in BcoSlots \cap live
  /\ Commit(Basic_com_object_dtor(Machine, x),
            Op("~Basic_com_object", x, x, api_[x], Null, "-"), Null)
  /\ live' = live \ {x}

Call_Basic_com_object_api(x) ==
  /\ Running /\ x \in BcoSlots \cap live
  /\ Commit(Basic_com_object_api(Machine, x),
            Op("Basic_com_object::api", x, x, api_[x], Null, "-"), Null)
  /\ UNCHANGED live

Call_Authorized_application_set_enabled(x) ==
  /\ Running /\ x \in BcoSlots \cap live
  /\ Commit(Authorized_application_set_enabled(Machine, x),
            Op("Authorized_application::set_enabled", x, x, api_[x], Null, "-"), Null)
  /\ UNCHANGED live

Call_Authorized_application_is_enabled(x) ==
  /\ Running /\ x \in BcoSlots \cap live
  /\ Commit(Authorized_application_is_enabled(Machine, x),
            Op("Authorized_application::is_enabled", x, x, api_[x], Null, "-"), Null)
  /\ UNCHANGED live

\* ------------------------------------------------------- subscriptions
SubSlots == 1..NumSubs
Tokens == 1..NumTokens

\* DWORD sink_connection_token_{}
NoToken == 0

\* The members of a subscription object.  com_ is the unique_ptr of
\* Basic_rdp_peer: "null", or an object that is "empty" (its api_ is null)
\* or "valid"; api_ is the pointer of the Basic_com_object base of
\* rdpts::Client; the four others are the members of Advise_sink_connection
\* and of Basic_rdp_peer.
NoSub ==
  [kind |-> "none", com_ |-> "null", api_ |-> FALSE, sink_ |-> FALSE,
   sink_connection_token_ |-> NoToken,
   point_container_ |-> FALSE, point_ |-> FALSE]

NoHeld == [container |-> 0, point |-> 0, api |-> 0]

\* The record the subscription operators transform: the object o, the
\* references held, the tokens registered, the calls made so far, and the
\* outcome with the exception's message.
SMachine(o) ==
  [o |-> o, held |-> held, advised |-> advised, trace |-> <<>>,
   outcome |-> "ok", what |-> "-", code |-> <<>>]

Ev(fn, arg, hr) == [fn |-> fn, arg |-> arg, hr |-> hr]

Emit(s, fn, arg, hr) == [s EXCEPT !.trace = Append(@, Ev(fn, arg, hr))]

Throw(s, type, what) == [s EXCEPT !.outcome = type, !.what = what]

\* CatchAll, the exception propagates.
CatchAll_Rethrow(s) == s

\* try { ... } catch (...) {}: every exception is swallowed (std::terminate
\* is not an exception).
CatchAll(s) ==
  IF s.outcome \in {"ok", "terminate"} THEN s
  ELSE [s EXCEPT !.outcome = "ok", !.what = "-", !.code = <<>>]

\* Win_error, the status code not kept.
Win_error_NoCode(s, message, code) == Throw(s, "Win_error", message)

\* throw Win_error{message, code}: code() answers the long it was given.
Win_error(s, message, code) ==
  [Throw(s, "Win_error", message) EXCEPT !.code = <<code>>]

\* throw_if_error, every status other than S_OK taken for a failure.
throw_if_error_NotOk(s, err, message) ==
  IF err # S_OK
  THEN IF err = E_OUTOFMEMORY THEN Throw(s, "bad_alloc", "std::bad_alloc")
       ELSE Win_error(s, message, err)
  ELSE s

\* exceptions.hpp throw_if_error().
throw_if_error(s, err, message) ==
  IF FAILED(err)
  THEN IF err = E_OUTOFMEMORY THEN Throw(s, "bad_alloc", "std::bad_alloc")
       ELSE Win_error(s, message, err)
  ELSE s

\* exceptions.hpp DMITIGR_WINCOM_THROW_IF_ERROR(err, msg).
DMITIGR_WINCOM_THROW_IF_ERROR(s, err, msg) ==
  LET e == err
  IN IF FAILED(e)
     THEN IF e = E_OUTOFMEMORY THEN Throw(s, "bad_alloc", "std::bad_alloc")
          ELSE Win_error(s, msg, e)
     ELSE s

\* com.QueryInterface(&point_container_)
Com_QueryInterface(s, hr) ==
  LET s1 == Emit(s, "QueryInterface", NoToken, hr)
  IN IF hr = S_OK
     THEN [s1 EXCEPT !.o.point_container_ = TRUE, !.held.container = @ + 1]
     ELSE s1

\* point_container_->FindConnectionPoint(sink_->interface_id(), &point_)
Container_FindConnectionPoint(s, hr) ==
  LET s1 == Emit(s, "FindConnectionPoint", NoToken, hr)
  IN IF hr = S_OK
     THEN [s1 EXCEPT !.o.point_ = TRUE, !.held.point = @ + 1]
     ELSE s1

\* Point_Advise, the token returned is not stored.
Point_Advise_NoStore(s, hr, token) ==
  LET s1 == Emit(s, "Advise", IF hr = S_OK THEN token ELSE NoToken, hr)
  IN IF hr = S_OK THEN [s1 EXCEPT !.advised = @ \cup {token}] ELSE s1

\* point_->Advise(sink_.get(), &sink_connection_token_)
Point_Advise(s, hr, token) ==
  LET s1 == Emit(s, "Advise", IF hr = S_OK THEN token ELSE NoToken, hr)
  IN IF hr = S_OK
     THEN [s1 EXCEPT !.o.sink_connection_token_ = token,
                     !.advised = @ \cup {token}]
     ELSE s1

\* point_->Unadvise(sink_connection_token_)
Point_Unadvise(s, hr) ==
  LET s1 == Emit(s, "Unadvise", s.o.sink_connection_token_, hr)
  IN IF hr = S_OK
     THEN [s1 EXCEPT !.advised = @ \ {s.o.sink_connection_token_}]
     ELSE s1

Point_Release(s) ==
  [Emit(s, "point_->Release", NoToken, S_OK) EXCEPT !.held.point = @ - 1]

Container_Release(s) ==
  [Emit(s, "point_container_->Release", NoToken, S_OK)
     EXCEPT !.held.container = @ - 1]

\* ~unique_ptr of sink_
Delete_sink(s) ==
  IF s.o.sink_
  THEN [Emit(s, "delete sink_", NoToken, S_OK) EXCEPT !.o.sink_ = FALSE]
  ELSE s

\* ~unique_ptr of com_: ~Basic_com_object releases api_ if it is not null.
Delete_com(s) ==
  IF s.o.com_ = "null" THEN s
  ELSE LET s1 == IF s.o.com_ = "valid"
                 THEN [Emit(s, "api_->Release", NoToken, S_OK)
                         EXCEPT !.held.api = @ - 1]
                 ELSE s
       IN [Emit(s1, "delete com_", NoToken, S_OK) EXCEPT !.o.com_ = "null"]

\* An exception leaving a constructor destroys the members already
\* constructed (never the object itself): here sink_.
Advise_sink_connection_unwind(s) ==
  IF s.outcome \in {"ok", "terminate"} THEN s ELSE Delete_sink(s)

Advise_sink_connection_ctor(s, sink, env) ==
  LET s0 == [s EXCEPT !.o.sink_ = sink]
      r == IF ~s0.o.sink_
           THEN Throw(s0, "invalid_argument", "invalid AdviseSink instance")
           ELSE LET s1 == Com_QueryInterface(s0, env.qi)
           IN IF env.qi # S_OK
              THEN Throw(s1, "runtime_error",
                         "cannot query interface of COM object")
              ELSE LET s2 == Container_FindConnectionPoint(s1, env.find)
              IN IF env.find # S_OK
                 THEN Throw(s2, "runtime_error",
                            "cannot find sink connection point of COM object")
                 ELSE LET s3 == Point_Advise(s2, env.advise, env.token)
                 IN IF env.advise # S_OK
                    THEN Throw(s3, "runtime_error",
                               "cannot get sink connection token")
                    ELSE Emit(s3, "set_owner", NoToken, S_OK)
  IN Advise_sink_connection_unwind(r)

\* Advise_sink_connection_dtor, the container released first.
Advise_sink_connection_dtor_ContainerFirst(s, unadvise) ==
  LET s1 == IF s.o.point_container_
            THEN [Container_Release(s) EXCEPT !.o.point_container_ = FALSE]
            ELSE s
      s2 == IF s1.o.point_
            THEN [Point_Release(Point_Unadvise(s1, unadvise))
                    EXCEPT !.o.point_ = FALSE]
            ELSE s1
  IN Delete_sink(s2)

Advise_sink_connection_dtor(s, unadvise) ==
  LET s1 == IF s.o.point_
            THEN [Point_Release(Point_Unadvise(s, unadvise))
                    EXCEPT !.o.point_ = FALSE]
            ELSE s
      s2 == IF s1.o.point_container_
            THEN [Container_Release(s1) EXCEPT !.o.point_container_ = FALSE]
            ELSE s1
  IN Delete_sink(s2)

\* The members of Basic_rdp_peer are destroyed in the reverse order of
\* their declaration: sink_, then com_.
Basic_rdp_peer_unwind(s) ==
  IF s.outcome \in {"ok", "terminate"} THEN s ELSE Delete_com(Delete_sink(s))

\* com_->api() is noexcept and checks api_: on an empty com it terminates.
Basic_rdp_peer_ctor(s, com, sink, env) ==
  LET s0 == [s EXCEPT !.o.com_ = com, !.o.sink_ = sink,
                      !.held.api = IF com = "valid" THEN @ + 1 ELSE @]
      r == IF s0.o.com_ = "null"
           THEN Throw(s0, "invalid_argument", "invalid BasicComObject instance")
           ELSE IF ~s0.o.sink_
           THEN Throw(s0, "invalid_argument", "invalid AdviseSink instance")
           ELSE IF s0.o.com_ = "empty"
           THEN Throw(s0, "terminate", "-")
           ELSE LET s1 == Com_QueryInterface(s0, env.qi)
           IN IF env.qi # S_OK
              THEN Throw(s1, "runtime_error",
                         "cannot query interface of COM object")
              ELSE LET s2 == Container_FindConnectionPoint(s1, env.find)
              IN IF env.find # S_OK
                 THEN Throw(s2, "runtime_error",
                            "cannot find sink connection point of COM object")
                 ELSE LET s3 == Point_Advise(s2, env.advise, env.token)
                 IN IF env.advise # S_OK
                    THEN Throw(s3, "runtime_error",
                               "cannot get sink connection token")
                    ELSE Emit(s3, "set_owner", NoToken, S_OK)
  IN Basic_rdp_peer_unwind(r)

\* Basic_rdp_peer_dtor, the members destroyed before the body runs.
Basic_rdp_peer_dtor_MembersFirst(s, unadvise) ==
  LET s0 == Delete_com(Delete_sink(s))
      s1 == IF s0.o.point_
            THEN [Point_Release(Point_Unadvise(s0, unadvise))
                    EXCEPT !.o.point_ = FALSE]
            ELSE s0
  IN IF s1.o.point_container_
     THEN [Container_Release(s1) EXCEPT !.o.point_container_ = FALSE]
     ELSE s1

Basic_rdp_peer_dtor(s, unadvise) ==
  LET s1 == IF s.o.point_
            THEN [Point_Release(Point_Unadvise(s, unadvise))
                    EXCEPT !.o.point_ = FALSE]
            ELSE s
      s2 == IF s1.o.point_container_
            THEN [Container_Release(s1) EXCEPT !.o.point_container_ = FALSE]
            ELSE s1
  IN Delete_com(Delete_sink(s2))

\* rdp::Client::close(): com().api().Disconnect().
rdp_Client_close(s, disconnect) ==
  IF s.o.com_ # "valid" THEN Throw(s, "terminate", "-")
  ELSE LET s1 == Emit(s, "Disconnect", NoToken, disconnect)
       IN IF disconnect # S_OK
          THEN Win_error(s1, "cannot close RDP client", disconnect)
          ELSE s1

\* rdp::Client::~Client(), followed by the destructor of its base.
rdp_Client_dtor(s, disconnect, unadvise) ==
  LET c == CatchAll(rdp_Client_close(s, disconnect))
  IN IF c.outcome = "terminate" THEN c ELSE Basic_rdp_peer_dtor(c, unadvise)

\* rdpts::Client::disconnect(): api().Disconnect(), throw_if_error.
rdpts_Client_disconnect(s, disconnect) ==
  IF ~s.o.api_ THEN Throw(s, "terminate", "-")
  ELSE throw_if_error(Emit(s, "Disconnect", NoToken, disconnect), disconnect,
                      "cannot disconnect from remote RDP server")

\* ~Basic_com_object of the base of rdpts::Client.
rdpts_Client_base_dtor(s) ==
  IF s.o.api_
  THEN [Emit(s, "api_->Release", NoToken, S_OK)
          EXCEPT !.held.api = @ - 1, !.o.api_ = FALSE]
  ELSE s

\* ~unique_ptr of the by-value parameter sink of a constructor that an
\* exception leaves before the parameter was moved into the member sink_.
Delete_parameter(s, sink) ==
  IF sink THEN Emit(s, "delete sink_", NoToken, S_OK) ELSE s

\* The constructor of rdpts::Client, its body left empty.
rdpts_Client_ctor_NoAddRef(s, sink, env) ==
  LET b0 == Emit(s, "CoCreateInstance", NoToken, env.create)
      b == IF env.create = S_OK /\ env.created
           THEN [b0 EXCEPT !.o.api_ = TRUE, !.held.api = @ + 1]
           ELSE b0
  IN IF env.create # S_OK
     THEN Win_error(Delete_parameter(b, sink), "cannot create COM object",
                    env.create)
     ELSE IF ~b.o.api_
     THEN Throw(Delete_parameter(b, sink), "logic_error",
                "invalid COM instance created")
     ELSE LET m == Advise_sink_connection_ctor(b, sink, env)
          IN IF m.outcome # "ok" THEN rdpts_Client_base_dtor(m) ELSE m

\* rdpts::Client(std::unique_ptr<Event_dispatcher>): the base is created by
\* CoCreateInstance, then the member sink_ subscribes to api(), then the
\* body adds one reference.  An exception of the member's constructor
\* destroys the base; one of the base's destroys the parameter sink, which
\* still owns the sink object.
rdpts_Client_ctor(s, sink, env) ==
  LET b0 == Emit(s, "CoCreateInstance", NoToken, env.create)
      b == IF env.create = S_OK /\ env.created
           THEN [b0 EXCEPT !.o.api_ = TRUE, !.held.api = @ + 1]
           ELSE b0
  IN IF env.create # S_OK
     THEN Win_error(Delete_parameter(b, sink), "cannot create COM object",
                    env.create)
     ELSE IF ~b.o.api_
     THEN Throw(Delete_parameter(b, sink), "logic_error",
                "invalid COM instance created")
     ELSE LET m == Advise_sink_connection_ctor(b, sink, env)
          IN IF m.outcome # "ok" THEN rdpts_Client_base_dtor(m)
             ELSE [Emit(m, "api_->AddRef", NoToken, S_OK)
                     EXCEPT !.held.api = @ + 1]

\* rdpts::Client::~Client(), then the member sink_, then the base.
rdpts_Client_dtor(s, disconnect, unadvise) ==
  LET c == CatchAll(rdpts_Client_disconnect(s, disconnect))
  IN IF c.outcome = "terminate" THEN c
     ELSE rdpts_Client_base_dtor(Advise_sink_connection_dtor(c, unadvise))

\* The answers of the connection objects to one construction.
\* A call that fails ends the construction: the answers to the calls after
\* it are never asked and are left at their defaults.
SubEnvs ==
  {e \in [create : {S_OK, E_FAIL, E_OUTOFMEMORY}, created : BOOLEAN,
          qi : {S_OK, E_NOINTERFACE, E_OUTOFMEMORY},
          find : {S_OK, E_FAIL, E_OUTOFMEMORY},
          advise : {S_OK, E_FAIL, E_OUTOFMEMORY}, token : Tokens] :
     /\ (e.create # S_OK \/ ~e.created) =>
          (e.qi = S_OK /\ e.find = S_OK /\ e.advise = S_OK)
     /\ e.qi # S_OK => (e.find = S_OK /\ e.advise = S_OK)
     /\ e.find # S_OK => e.advise = S_OK}

NoEnv ==
  [create |-> S_OK, created |-> TRUE, qi |-> S_OK, find |-> S_OK,
   advise |-> S_OK, token |-> NoToken]

NoSubOp ==
  [op |-> "init", i |-> 0, kind |-> "none", before |-> NoSub, env |-> NoEnv,
   disconnect |-> S_OK, unadvise |-> S_OK, outcome |-> "ok", what |-> "-"]

RunningS == lastS.outcome # "terminate"

SumHeld(h) == h.container + h.point + h.api

\* Commit the effect s of subscription operation o on slot i; the object
\* exists afterwards iff exists.
CommitS(s, o, exists) ==
  /\ SumHeld(s.held) <= MaxHeld
  /\ sub' = [sub EXCEPT ![o.i] = IF exists THEN s.o ELSE NoSub]
  /\ held' = s.held
  /\ advised' = s.advised
  /\ trace' = s.trace
  /\ lastS' = [o EXCEPT !.outcome = s.outcome, !.what = s.what]
  /\ UNCHANGED <<hvars, vvars, evars, nvars>>

Call_Advise_sink_connection_ctor(i, sink, env) ==
  /\ RunningS /\ sub[i].kind = "none" /\ env.token \notin advised
  /\ env.create = S_OK /\ env.created
  /\ LET s == Advise_sink_connection_ctor(
                SMachine([NoSub EXCEPT !.kind = "Advise_sink_connection"]),
                sink, env)
     IN CommitS(s, [NoSubOp EXCEPT !.op = "ctor", !.i = i, !.env = env,
                       !.kind = "Advise_sink_connection",
                       !.before = [NoSub EXCEPT !.sink_ = sink]],
                s.outcome = "ok")

Call_Basic_rdp_peer_ctor(i, kind, com, sink, env) ==
  /\ RunningS /\ sub[i].kind = "none" /\ env.token \notin advised
  /\ env.create = S_OK /\ env.created
  /\ kind \in {"Basic_rdp_peer", "rdp::Client"}
  /\ LET s == Basic_rdp_peer_ctor(SMachine([NoSub EXCEPT !.kind = kind]),
                                  com, sink, env)
     IN CommitS(s, [NoSubOp EXCEPT !.op = "ctor", !.i = i, !.env = env,
                       !.kind = kind,
                       !.before = [NoSub EXCEPT !.sink_ = sink, !.com_ = com]],
                s.outcome = "ok")

Call_rdpts_Client_ctor(i, sink, env) ==
  /\ RunningS /\ sub[i].kind = "none" /\ env.token \notin advised
  /\ env.create # S_OK => ~env.created
  /\ LET s == rdpts_Client_ctor(SMachine([NoSub EXCEPT !.kind = "rdpts::Client"]),
                                sink, env)
     IN CommitS(s, [NoSubOp EXCEPT !.op = "ctor", !.i = i, !.env = env,
                       !.kind = "rdpts::Client",
                       !.before = [NoSub EXCEPT !.sink_ = sink]],
                s.outcome = "ok")

Call_Advise_sink_connection_dtor(i, unadvise) ==
  /\ RunningS /\ sub[i].kind = "Advise_sink_connection"
  /\ CommitS(Advise_sink_connection_dtor(SMachine(sub[i]), unadvise),
             [NoSubOp EXCEPT !.op = "dtor", !.i = i, !.kind = sub[i].kind,
                 !.before = sub[i], !.unadvise = unadvise],
             FALSE)

Call_Basic_rdp_peer_dtor(i, unadvise) ==
  /\ RunningS /\ sub[i].kind = "Basic_rdp_peer"
  /\ CommitS(Basic_rdp_peer_dtor(SMachine(sub[i]), unadvise),
             [NoSubOp EXCEPT !.op = "dtor", !.i = i, !.kind = sub[i].kind,
                 !.before = sub[i], !.unadvise = unadvise],
             FALSE)

Call_rdp_Client_dtor(i, disconnect, unadvise) ==
  /\ RunningS /\ sub[i].kind = "rdp::Client"
  /\ CommitS(rdp_Client_dtor(SMachine(sub[i]), disconnect, unadvise),
             [NoSubOp EXCEPT !.op = "dtor", !.i = i, !.kind = sub[i].kind,
                 !.before = sub[i], !.unadvise = unadvise,
                 !.disconnect = disconnect],
             FALSE)

Call_rdpts_Client_dtor(i, disconnect, unadvise) ==
  /\ RunningS /\ sub[i].kind = "rdpts::Client"
  /\ CommitS(rdpts_Client_dtor(SMachine(sub[i]), disconnect, unadvise),
             [NoSubOp EXCEPT !.op = "dtor", !.i = i, !.kind = sub[i].kind,
                 !.before = sub[i], !.unadvise = unadvise,
                 !.disconnect = disconnect],
             FALSE)

\* ------------------------------------------------- rdpts::Client, hosted
\* An rdpts::Client whose ActiveX object a window hosts: the object o, the
\* references on its connection objects and on the ActiveX object itself,
\* its registered tokens, and the window ("open" while it has still to
\* release the object, "closed" once it has, "none" before any hosting).
NoAx == [o |-> NoSub, held |-> NoHeld, advised |-> {}, window |-> "none"]

AxMachine(a) ==
  [o |-> a.o, held |-> a.held, advised |-> a.advised, trace |-> <<>>,
   outcome |-> "ok", what |-> "-", code |-> <<>>]

NoAxOp ==
  [op |-> "init", i |-> 0, before |-> 0, trace |-> <<>>, outcome |-> "ok"]

RunningA == lastA.outcome # "terminate"

\* Commit the effect s of operation op on hosted client i.
CommitA(s, op, i, exists, window) ==
  /\ ax' = [ax EXCEPT ![i] = [o |-> IF exists THEN s.o ELSE NoSub,
                              held |-> s.held, advised |-> s.advised,
                              window |-> window]]
  /\ lastA' = [op |-> op, i |-> i, before |-> ax[i].held.api,
               trace |-> s.trace, outcome |-> s.outcome]
  /\ UNCHANGED <<hvars, svars, vvars, evars, cvars, kvars, rvars>>

\* A client is constructed in a free slot and, if the constructor returns,
\* its ActiveX object is hosted in a window.
Call_Hosted_Client_ctor(i, sink, env) ==
  /\ RunningA /\ ax[i].o.kind = "none" /\ ax[i].window # "open"
  /\ env.create # S_OK => ~env.created
  /\ LET s == rdpts_Client_ctor(
                AxMachine([NoAx EXCEPT !.o.kind = "rdpts::Client"]), sink, env)
     IN CommitA(s, "ctor", i, s.outcome = "ok",
                IF s.outcome = "ok" THEN "open" ELSE "none")

Call_Hosted_Client_dtor(i, disconnect, unadvise) ==
  /\ RunningA /\ ax[i].o.kind = "rdpts::Client"
  /\ CommitA(rdpts_Client_dtor(AxMachine(ax[i]), disconnect, unadvise),
             "dtor", i, FALSE, ax[i].window)

\* The window that hosts the ActiveX object is closed: it releases the
\* object once, whether the client still exists or not.
Window_Release(i) ==
  /\ RunningA /\ ax[i].window = "open"
  /\ CommitA([Emit(AxMachine(ax[i]), "api_->Release", NoToken, S_OK)
                EXCEPT !.held.api = @ - 1],
             "window", i, ax[i].o.kind # "none", "closed")

\* --------------------------------------------------------------- values
ValSlots == 1..NumVals

\* The values of CIMTYPE the accessors test, and one they do not.
CimTypes ==
  {"CIM_STRING", "CIM_SINT8", "CIM_UINT8", "CIM_SINT16", "CIM_UINT16",
   "CIM_SINT32", "CIM_UINT32", "CIM_SINT64", "CIM_UINT64", "CIM_BOOLEAN",
   "CIM_DATETIME", "CIM_REAL64"}

VARIANT_TRUE == -1
VARIANT_FALSE == 0

\* The n low bytes of the two's complement of v, least significant first.
RECURSIVE LowBytes(_, _)
LowBytes(u, n) ==
  IF n = 0 THEN <<>> ELSE <<u % 256>> \o LowBytes(u \div 256, n - 1)

ToBytes(v, n) ==
  IF v >= 0 THEN LowBytes(v, n)
  ELSE LET c == LowBytes(-v - 1, n) IN [k \in 1..n |-> 255 - c[k]]

\* The unsigned and the signed integer held in bytes 1..n of b.
RECURSIVE UFrom(_, _, _)
UFrom(b, k, n) == IF k > n THEN 0 ELSE b[k] + 256 * UFrom(b, k + 1, n)

Unsigned(b, n) == UFrom(b, 1, n)

Signed(b, n) ==
  IF b[n] >= 128 THEN -UFrom([k \in 1..n |-> 255 - b[k]], 1, n) - 1
  ELSE UFrom(b, 1, n)

\* VARIANT data{}: the eight bytes of the union, and the characters
\* bstrVal points to when the union holds a BSTR.
EmptyVariant == [bytes |-> ToBytes(0, 8), bstrVal |-> <<>>]

\* The width in bytes of the member IWbemClassObject::Get fills for a type.
MemberWidth(type) ==
  CASE type \in {"CIM_SINT8", "CIM_UINT8"} -> 1
    [] type \in {"CIM_SINT16", "CIM_UINT16", "CIM_BOOLEAN"} -> 2
    [] type \in {"CIM_SINT32", "CIM_UINT32"} -> 4
    [] OTHER -> 8

\* The payloads Get hands out for a type: integers in the range of the
\* type, VARIANT_BOOL values, the bits of a DATE or double, the characters
\* of a BSTR.
Payloads(type) ==
  CASE type = "CIM_SINT8" -> {-128, -1, 127}
    [] type = "CIM_UINT8" -> {0, 255}
    [] type = "CIM_SINT16" -> {-32768, -1, 300}
    [] type = "CIM_UINT16" -> {1, 65535}
    [] type = "CIM_SINT32" -> {-70000, 70000}
    [] type = "CIM_UINT32" -> {0, 70000}
    [] type = "CIM_SINT64" -> {-70000, 70000}
    [] type = "CIM_UINT64" -> {0, 70000}
    [] type = "CIM_BOOLEAN" -> {VARIANT_FALSE, VARIANT_TRUE}
    [] type = "CIM_DATETIME" -> {0, 45000}
    [] type = "CIM_REAL64" -> {0}
    [] type = "CIM_STRING" -> {<<>>, <<"a", "b">>}

\* The VARIANT Get fills for a payload of a type.
VariantOf(type, payload) ==
  IF type = "CIM_STRING"
  THEN [bytes |-> ToBytes(1, 8), bstrVal |-> payload]
  ELSE [bytes |-> ToBytes(payload, MemberWidth(type)) \o
                    ToBytes(0, 8 - MemberWidth(type)),
        bstrVal |-> <<>>]

NoValue == [type |-> "none", data |-> EmptyVariant, flavor |-> 0]

\* The record the value operators transform.
VMachine(o) ==
  [o |-> o, made |-> made, cleared |-> cleared, trace |-> <<>>,
   outcome |-> "ok", what |-> <<>>, code |-> <<>>, result |-> 0]

Return(s, result) == [s EXCEPT !.result = result]

\* The accessors read the member of the union that has their type: cVal and
\* bVal are its first byte, iVal, uiVal and boolVal its first two, intVal
\* and uintVal its first four, llVal, ullVal and date all eight.
\* The one-argument detail::str<String>(BSTR) is not part of the sources:
\* the result is kept as the conversion applied to the characters.
detail_str(bstr) == [fn |-> "detail::str", of |-> bstr]

\* CannotGetAs, the message without the name of the accessor's type.
CannotGetAs_NoName(name) == <<"cannot", "get", "value", "of", "VARIANT">>

CannotGetAs(name) == <<"cannot", "get", "value", "of", "VARIANT", "as", name>>

Value_as_str(s) ==
  IF s.o.type # "CIM_STRING" THEN Throw(s, "logic_error", CannotGetAs("string"))
  ELSE Return(s, detail_str(s.o.data.bstrVal))

Value_as_string(s) == Value_as_str(s)

Value_as_wstring(s) == Value_as_str(s)

\* Value_as_int8, a payload of type CIM_UINT8 accepted as well.
Value_as_int8_Coerce(s) ==
  IF s.o.type \notin {"CIM_SINT8", "CIM_UINT8"}
  THEN Throw(s, "logic_error", CannotGetAs("int8"))
  ELSE Return(s, Signed(s.o.data.bytes, 1))

Value_as_int8(s) ==
  IF s.o.type # "CIM_SINT8" THEN Throw(s, "logic_error", CannotGetAs("int8"))
  ELSE Return(s, Signed(s.o.data.bytes, 1))

Value_as_uint8(s) ==
  IF s.o.type # "CIM_UINT8" THEN Throw(s, "logic_error", CannotGetAs("uint8"))
  ELSE Return(s, Unsigned(s.o.data.bytes, 1))

Value_as_int16(s) ==
  IF s.o.type # "CIM_SINT16" THEN Throw(s, "logic_error", CannotGetAs("int16"))
  ELSE Return(s, Signed(s.o.data.bytes, 2))

Value_as_uint16(s) ==
  IF s.o.type # "CIM_UINT16" THEN Throw(s, "logic_error", CannotGetAs("uint16"))
  ELSE Return(s, Unsigned(s.o.data.bytes, 2))

Value_as_int32(s) ==
  IF s.o.type # "CIM_SINT32" THEN Throw(s, "logic_error", CannotGetAs("int32"))
  ELSE Return(s, Signed(s.o.data.bytes, 4))

Value_as_uint32(s) ==
  IF s.o.type # "CIM_UINT32" THEN Throw(s, "logic_error", CannotGetAs("uint32"))
  ELSE Return(s, Unsigned(s.o.data.bytes, 4))

Value_as_int64(s) ==
  IF s.o.type # "CIM_SINT64" THEN Throw(s, "logic_error", CannotGetAs("int64"))
  ELSE Return(s, Signed(s.o.data.bytes, 8))

Value_as_uint64(s) ==
  IF s.o.type # "CIM_UINT64" THEN Throw(s, "logic_error", CannotGetAs("uint64"))
  ELSE Return(s, Unsigned(s.o.data.bytes, 8))

Value_as_bool(s) ==
  IF s.o.type # "CIM_BOOLEAN" THEN Throw(s, "logic_error", CannotGetAs("bool"))
  ELSE Return(s, Signed(s.o.data.bytes, 2) = VARIANT_TRUE)

Value_as_date(s) ==
  IF s.o.type # "CIM_DATETIME" THEN Throw(s, "logic_error", CannotGetAs("DATE"))
  ELSE Return(s, Unsigned(s.o.data.bytes, 8))

Accessors ==
  {"as_string", "as_wstring", "as_int8", "as_uint8", "as_int16", "as_uint16",
   "as_int32", "as_uint32", "as_int64", "as_uint64", "as_bool", "as_date"}

Value_as(acc, s) ==
  CASE acc = "as_string" -> Value_as_string(s)
    [] acc = "as_wstring" -> Value_as_wstring(s)
    [] acc = "as_int8" -> Value_as_int8(s)
    [] acc = "as_uint8" -> Value_as_uint8(s)
    [] acc = "as_int16" -> Value_as_int16(s)
    [] acc = "as_uint16" -> Value_as_uint16(s)
    [] acc = "as_int32" -> Value_as_int32(s)
    [] acc = "as_uint32" -> Value_as_uint32(s)
    [] acc = "as_int64" -> Value_as_int64(s)
    [] acc = "as_uint64" -> Value_as_uint64(s)
    [] acc = "as_bool" -> Value_as_bool(s)
    [] acc = "as_date" -> Value_as_date(s)

\* Value_dtor, VariantClear not called.
Value_dtor_NoClear(s) == [s EXCEPT !.o = NoValue]

\* ~Value(): VariantClear(&data).
Value_dtor(s) ==
  [Emit(s, "VariantClear", NoToken, S_OK)
     EXCEPT !.cleared = @ + 1, !.o = NoValue]

\* ClassObject::value(): detail::api(*this) is noexcept and checks the
\* handle; Get fills data, type and flavor when it succeeds; the Value is
\* constructed in place in the caller.
ClassObject_value(s, empty, env) ==
  IF empty THEN Throw(s, "terminate", <<>>)
  ELSE LET g0 == Emit(s, "Get", NoToken, env.err)
           g == IF FAILED(env.err) THEN g0
                ELSE [g0 EXCEPT !.made = @ + 1]
           t == throw_if_error(g, env.err,
                  <<"cannot", "get", "value", "of", "IWbemClassObject">>)
       IN IF t.outcome # "ok" THEN t
          ELSE [t EXCEPT !.o = [type |-> env.type,
                                data |-> VariantOf(env.type, env.payload),
                                flavor |-> env.flavor]]

NoValOp ==
  [op |-> "init", v |-> 0, acc |-> "-", err |-> S_OK, payload |-> 0,
   before |-> NoValue, outcome |-> "ok", what |-> <<>>, result |-> 0]

RunningV == lastV.outcome # "terminate"

CommitV(s, o) ==
  /\ s.made <= MaxMade
  /\ val' = [val EXCEPT ![o.v] = s.o]
  /\ made' = s.made
  /\ cleared' = s.cleared
  /\ vtrace' = s.trace
  /\ lastV' = [o EXCEPT !.outcome = s.outcome, !.what = s.what,
                        !.result = s.result]
  /\ UNCHANGED <<hvars, svars, evars, nvars>>

Call_ClassObject_value(v, empty, env) ==
  /\ RunningV /\ val[v].type = "none"
  /\ env.payload \in Payloads(env.type)
  /\ FAILED(env.err) \/ empty => env.type = "CIM_REAL64" /\ env.flavor = 0
  /\ CommitV(ClassObject_value(VMachine(NoValue), empty, env),
             [NoValOp EXCEPT !.op = "value", !.v = v, !.err = env.err,
                             !.payload = IF FAILED(env.err) \/ empty THEN 0
                                         ELSE env.payload])

Call_Value_as(v, acc) ==
  /\ RunningV /\ val[v].type # "none"
  /\ CommitV(Value_as(acc, VMachine(val[v])),
             [NoValOp EXCEPT !.op = "as", !.v = v, !.acc = acc,
                             !.before = val[v]])

Call_Value_dtor(v) ==
  /\ RunningV /\ val[v].type # "none"
  /\ CommitV(Value_dtor(VMachine(val[v])),
             [NoValOp EXCEPT !.op = "dtor", !.v = v, !.before = val[v]])

\* ------------------------------------------------- handles, thread by thread
\* Each thread owns handles of its own to one shared resource (one to
\* begin with, and room for a second that it copies or moves into); the
\* statements of the special members are the steps, AddRef and Release
\* being atomic.
Threads == 1..NumThreads
Own == {1, 2}
Shared == 1

Idle == [op |-> "idle", dst |-> 0, src |-> 0, before |-> 0]

\* The body of the copy constructor, the AddRef left out.
Unknown_api_copy_body_NoAddRef(p, count) == count

\* The body of the copy constructor: if (api_) api_->AddRef().
Unknown_api_copy_body(p, count) == IF p # Null THEN count + 1 ELSE count

\* The first statement of the destructor: if (api_) api_->Release().
Unknown_api_dtor_release(p, count) == IF p # Null THEN count - 1 ELSE count

\* Copy and move constructor, member initializer: api_{rhs.api_}.
Thread_ctor_init(t, dst, src, op) ==
  /\ pc[t] = Idle /\ src \in tlive[t] /\ dst \in Own \ tlive[t]
  /\ op \in {"copy", "move"}
  /\ tapi' = [tapi EXCEPT ![t][dst] = tapi[t][src]]
  /\ pc' = [pc EXCEPT ![t] = [op |-> op, dst |-> dst, src |-> src,
                              before |-> 0]]
  /\ UNCHANGED <<tlive, tcount>>
  /\ UNCHANGED <<hvars, svars, vvars, evars, avars, kvars, rvars>>

\* Copy constructor, body.
Thread_copy_body(t) ==
  /\ pc[t].op = "copy"
  /\ tcount' = Unknown_api_copy_body(tapi[t][pc[t].dst], tcount)
  /\ tlive' = [tlive EXCEPT ![t] = @ \cup {pc[t].dst}]
  /\ pc' = [pc EXCEPT ![t] = Idle]
  /\ UNCHANGED tapi
  /\ UNCHANGED <<hvars, svars, vvars, evars, avars, kvars, rvars>>

\* Move constructor, body: rhs.api_ = nullptr.
Thread_move_body(t) ==
  /\ pc[t].op = "move"
  /\ tapi' = [tapi EXCEPT ![t][pc[t].src] = Null]
  /\ tlive' = [tlive EXCEPT ![t] = @ \cup {pc[t].dst}]
  /\ pc' = [pc EXCEPT ![t] = Idle]
  /\ UNCHANGED tcount
  /\ UNCHANGED <<hvars, svars, vvars, evars, avars, kvars, rvars>>

\* Destructor, first statement.
Thread_dtor_release(t, k) ==
  /\ pc[t] = Idle /\ k \in tlive[t]
  /\ tcount' = Unknown_api_dtor_release(tapi[t][k], tcount)
  /\ pc' = [pc EXCEPT ![t] = [op |-> "dtor", dst |-> k, src |-> k,
                              before |-> tcount]]
  /\ UNCHANGED <<tapi, tlive>>
  /\ UNCHANGED <<hvars, svars, vvars, evars, avars, kvars, rvars>>

\* Destructor, second statement: api_ = nullptr; the handle is gone.
Thread_dtor_reset(t) ==
  /\ pc[t].op = "dtor"
  /\ tapi' = [tapi EXCEPT ![t][pc[t].dst] = Null]
  /\ tlive' = [tlive EXCEPT ![t] = @ \ {pc[t].dst}]
  /\ pc' = [pc EXCEPT ![t] = Idle]
  /\ UNCHANGED tcount
  /\ UNCHANGED <<hvars, svars, vvars, evars, avars, kvars, rvars>>

\* ---------------------------------------------------------- rdp::Server
\* Two servers: what one does leaves the other alone.
Servers == {1, 2}

\* The record the operations of a server transform.
SrvMachine(i) ==
  [is_open_ |-> is_open_[i], trace |-> <<>>, outcome |-> "ok", what |-> "-",
   code |-> <<>>]

\* Server_open, the flag set before the result of Open is known.
Server_open_SetFirst(s, err) ==
  IF ~s.is_open_
  THEN LET s1 == [Emit(s, "Open", NoToken, err) EXCEPT !.is_open_ = TRUE]
       IN IF err # S_OK THEN Win_error(s1, "cannot open RDP server", err)
          ELSE s1
  ELSE s

Server_open(s, err) ==
  IF ~s.is_open_
  THEN LET s1 == Emit(s, "Open", NoToken, err)
       IN IF err # S_OK THEN Win_error(s1, "cannot open RDP server", err)
          ELSE [s1 EXCEPT !.is_open_ = TRUE]
  ELSE s

Server_close(s, err) ==
  IF s.is_open_
  THEN LET s1 == Emit(s, "Close", NoToken, err)
       IN IF err # S_OK THEN Win_error(s1, "cannot close RDP server", err)
          ELSE [s1 EXCEPT !.is_open_ = FALSE]
  ELSE s

Server_is_open(s) == s.is_open_

\* rdp::Server::pause and resume: the call is made whatever is_open_ is.
Server_pause(s, err) ==
  LET s1 == Emit(s, "Pause", NoToken, err)
  IN IF err # S_OK THEN Win_error(s1, "cannot pause RDP server", err) ELSE s1

Server_resume(s, err) ==
  LET s1 == Emit(s, "Resume", NoToken, err)
  IN IF err # S_OK THEN Win_error(s1, "cannot resume RDP server", err) ELSE s1

\* rdp::Server::invitation_manager, attendee_manager and
\* session_properties: each calls its method of the session; the status
\* err the method returns is not looked at, only the pointer it stored
\* (api: whether it is not null), which the returned handle wraps.
Getters ==
  {"Server::invitation_manager", "Server::attendee_manager",
   "Server::session_properties"}

Server_get(s, getter, err, api) ==
  LET fn == IF getter = "Server::invitation_manager" THEN "get_Invitations"
            ELSE IF getter = "Server::attendee_manager" THEN "get_Attendees"
            ELSE "get_Properties"
      s1 == Emit(s, fn, NoToken, err)
  IN IF ~api
     THEN Throw(s1, "logic_error",
                IF getter = "Server::invitation_manager"
                THEN "invalid IRDPSRAPIInvitationManager instance retrieved"
                ELSE IF getter = "Server::attendee_manager"
                THEN "invalid IRDPSRAPIAttendeeManager instance retrieved"
                ELSE "invalid IRDPSRAPISessionProperties instance retrieved")
     ELSE s1

NoSrvOp ==
  [op |-> "init", i |-> 0, err |-> S_OK, before |-> FALSE, trace |-> <<>>,
   outcome |-> "ok", code |-> <<>>, result |-> FALSE]

\* Commit the effect s of operation op on server i; err is the answer of
\* the external call, S_OK where none was asked.
CommitSrv(s, op, i) ==
  /\ is_open_' = [is_open_ EXCEPT ![i] = s.is_open_]
  /\ recent' = [recent EXCEPT ![i] =
                  IF s.trace # <<>> /\ s.trace[1].hr = S_OK
                  THEN s.trace[1].fn ELSE @]
  /\ session' = [session EXCEPT ![i] =
                   IF /\ s.trace # <<>> /\ s.trace[1].hr = S_OK
                      /\ s.trace[1].fn \in {"Open", "Close"}
                   THEN s.trace[1].fn ELSE @]
  /\ lastSrv' = [op |-> op, i |-> i,
                 err |-> IF s.trace = <<>> THEN S_OK ELSE s.trace[1].hr,
                 before |-> is_open_[i], trace |-> s.trace,
                 outcome |-> s.outcome, code |-> s.code,
                 result |-> Server_is_open(s)]
  /\ UNCHANGED <<hvars, svars, vvars, evars, cvars, avars, kvars>>

Call_Server_open(i, err) ==
  /\ is_open_[i] => err = S_OK
  /\ CommitSrv(Server_open(SrvMachine(i), err), "Server::open", i)

Call_Server_close(i, err) ==
  /\ ~is_open_[i] => err = S_OK
  /\ CommitSrv(Server_close(SrvMachine(i), err), "Server::close", i)

Call_Server_pause(i, err) ==
  /\ i \in Servers
  /\ CommitSrv(Server_pause(SrvMachine(i), err), "Server::pause", i)

Call_Server_resume(i, err) ==
  /\ i \in Servers
  /\ CommitSrv(Server_resume(SrvMachine(i), err), "Server::resume", i)

\* A getter that fails stores no pointer.
Call_Server_get(i, getter, err, api) ==
  /\ i \in Servers /\ getter \in Getters
  /\ err # S_OK => ~api
  /\ CommitSrv(Server_get(SrvMachine(i), getter, err, api), getter, i)

Call_Server_is_open(i) ==
  /\ i \in Servers
  /\ CommitSrv(SrvMachine(i), "Server::is_open", i)

\* ----------------------------------------------------------- Advise_sink
Sinks == {"Advise_sink", "rdp::Advise_sink"}

\* ULONG: an unsigned integer of 32 bits, as its two halves of 16 bits.
Half == 65536
ULONG(n) == [hi |-> (n \div Half) % Half, lo |-> n % Half]

\* ++u and --u of an unsigned u: both wrap around.
Increment(u) ==
  IF u.lo < Half - 1 THEN [u EXCEPT !.lo = @ + 1]
  ELSE [hi |-> (u.hi + 1) % Half, lo |-> 0]

Decrement(u) ==
  IF u.lo > 0 THEN [u EXCEPT !.lo = @ - 1]
  ELSE [hi |-> (u.hi + Half - 1) % Half, lo |-> Half - 1]

Less(u, v) == u.hi < v.hi \/ (u.hi = v.hi /\ u.lo < v.lo)

\* std::max(a, b): b if a < b, else a.
std_max(a, b) == IF Less(a, b) THEN b ELSE a

\* return ++ref_count_;
Advise_sink_AddRef(count) == Increment(count)

\* return ref_count_ = std::max(--ref_count_, ULONG(0));
Advise_sink_Release(count) == std_max(Decrement(count), ULONG(0))

\* HRESULT QueryInterface(REFIID id, void** object): object tells whether
\* the out pointer is not null; the answer is the status and the count.
E_POINTER == -2147467261
SinkIids == {"ComInterface", "IDispatch", "IUnknown", "IMarshal"}

Advise_sink_QueryInterface(count, id, object) ==
  IF ~object THEN [hr |-> E_POINTER, count |-> count]
  ELSE IF id \in {"ComInterface", "IDispatch", "IUnknown"}
  THEN [hr |-> S_OK, count |-> Advise_sink_AddRef(count)]
  ELSE [hr |-> E_NOINTERFACE, count |-> count]

NoSinkOp ==
  [op |-> "init", k |-> "-", before |-> ULONG(0), result |-> ULONG(0),
   hr |-> S_OK]

\* The distance of a count from zero, on either side of it.
Near(u) ==
  \/ u.hi = 0 /\ u.lo <= MaxSinkRefs
  \/ u.hi = Half - 1 /\ u.lo >= Half - MaxSinkRefs

Call_Advise_sink_AddRef(k) ==
  /\ Near(Advise_sink_AddRef(sink_ref_count_[k]))
  /\ sink_ref_count_' =
       [sink_ref_count_ EXCEPT ![k] = Advise_sink_AddRef(@)]
  /\ lastR' = [op |-> "AddRef", k |-> k, before |-> sink_ref_count_[k],
               result |-> Advise_sink_AddRef(sink_ref_count_[k]),
               hr |-> S_OK]
  /\ UNCHANGED <<hvars, svars, vvars, evars, cvars, avars, rvars>>

Call_Advise_sink_Release(k) ==
  /\ Near(Advise_sink_Release(sink_ref_count_[k]))
  /\ sink_ref_count_' =
       [sink_ref_count_ EXCEPT ![k] = Advise_sink_Release(@)]
  /\ lastR' = [op |-> "Release", k |-> k, before |-> sink_ref_count_[k],
               result |-> Advise_sink_Release(sink_ref_count_[k]),
               hr |-> S_OK]
  /\ UNCHANGED <<hvars, svars, vvars, evars, cvars, avars, rvars>>

Call_Advise_sink_QueryInterface(k, id, object) ==
  LET q == Advise_sink_QueryInterface(sink_ref_count_[k], id, object)
  IN /\ Near(q.count)
     /\ sink_ref_count_' = [sink_ref_count_ EXCEPT ![k] = q.count]
     /\ lastR' = [op |-> "QueryInterface", k |-> k,
                  before |-> sink_ref_count_[k], result |-> q.count,
                  hr |-> q.hr]
     /\ UNCHANGED <<hvars, svars, vvars, evars, cvars, avars, rvars>>

\* A failure surfaced to the caller: the operation, the step of it that
\* failed, the status that step returned, the type of the exception and
\* the status code it carries, if any.
Failure(op, site, hr, type, code) ==
  [op |-> op, site |-> site, hr |-> hr, type |-> type, code |-> code]

NoFailure == Failure("-", "-", S_OK, "ok", <<>>)

Init ==
  /\ api_ = [x \in AllSlots |-> Null]
  /\ live = {}
  /\ ref_count = [r \in Res |-> 0]
  /\ raw = [r \in Res |-> 0]
  /\ acquired = [r \in Res |-> 0]
  /\ released = [r \in Res |-> 0]
  /\ calls = <<>>
  /\ last = NoOp
  /\ sub = [i \in SubSlots |-> NoSub]
  /\ held = NoHeld
  /\ advised = {}
  /\ trace = <<>>
  /\ lastS = NoSubOp
  /\ val = [v \in ValSlots |-> NoValue]
  /\ made = 0
  /\ cleared = 0
  /\ vtrace = <<>>
  /\ lastV = NoValOp
  /\ errA = NoFailure
  /\ errB = NoFailure
  /\ tapi = [t \in Threads |-> [k \in Own |-> IF k = 1 THEN Shared ELSE Null]]
  /\ tlive = [t \in Threads |-> {1}]
  /\ tcount = NumThreads
  /\ pc = [t \in Threads |-> Idle]
  /\ ax = [i \in SubSlots |-> NoAx]
  /\ lastA = NoAxOp
  /\ sink_ref_count_ = [k \in Sinks |-> ULONG(0)]
  /\ lastR = NoSinkOp
  /\ is_open_ = [i \in Servers |-> FALSE]
  /\ recent = [i \in Servers |-> "none"]
  /\ session = [i \in Servers |-> "none"]
  /\ lastSrv = NoSrvOp

Next ==
  \/ \E r \in Res : Obtain(r)
  \/ \E r \in Res : RawRelease(r)
  \/ \E x \in UaSlots : Call_Unknown_api_ctor_default(x)
  \/ \E x \in UaSlots, p \in Ptrs : Call_Unknown_api_ctor_raw(x, p)
  \/ \E x, rhs \in UaSlots : Call_Unknown_api_ctor_move(x, rhs)
  \/ \E x, rhs \in UaSlots : Call_Unknown_api_ctor_copy(x, rhs)
  \/ \E x, rhs \in UaSlots : Call_Unknown_api_assign_move(x, rhs)
  \/ \E x, rhs \in UaSlots : Call_Unknown_api_assign_copy(x, rhs)
  \/ \E x, rhs \in UaSlots : Call_Unknown_api_swap(x, rhs)
  \/ \E x \in UaSlots : Call_Unknown_api_dtor(x)
  \/ \E x \in UaSlots : Call_Unknown_api_api(x)
  \/ \E x \in UaSlots, p \in Ptrs, iid \in Iids : Call_Unknown_api_query(x, p, iid)
  \/ \E x \in UaSlots : Call_Ptr_get(x)
  \/ \E x \in UaSlots : Call_Ptr_arrow(x)
  \/ \E x, this \in UaSlots, iid \in Iids : Call_Ptr_to(x, this, iid)
  \/ \E x \in UaSlots : Call_Invitation_revoke(x)
  \/ \E x \in UaSlots : Call_Invitation_is_revoked(x)
  \/ \E x \in BcoSlots, p \in Ptrs : Call_Basic_com_object_ctor_raw(x, p)
  \/ \E x \in BcoSlots, err \in {S_OK, E_FAIL}, created \in Ptrs :
       Call_Basic_com_object_ctor_context(x, err, created)
  \/ \E x, rhs \in BcoSlots : Call_Basic_com_object_ctor_move(x, rhs)
  \/ \E x, rhs \in BcoSlots : Call_Basic_com_object_assign_move(x, rhs)
  \/ \E x, rhs \in BcoSlots : Call_Basic_com_object_swap(x, rhs)
  \/ \E x \in BcoSlots : Call_Basic_com_object_dtor(x)
  \/ \E x \in BcoSlots : Call_Basic_com_object_api(x)
  \/ \E x \in BcoSlots : Call_Authorized_application_set_enabled(x)
  \/ \E x \in BcoSlots : Call_Authorized_application_is_enabled(x)

Spec == Init /\ [][Next]_vars

HResults == {S_OK, E_FAIL, E_OUTOFMEMORY}

NextSub ==
  \/ \E i \in SubSlots, sink \in BOOLEAN, env \in SubEnvs :
       Call_Advise_sink_connection_ctor(i, sink, env)
  \/ \E i \in SubSlots, kind \in {"Basic_rdp_peer", "rdp::Client"},
        com \in {"null", "empty", "valid"}, sink \in BOOLEAN, env \in SubEnvs :
       Call_Basic_rdp_peer_ctor(i, kind, com, sink, env)
  \/ \E i \in SubSlots, sink \in BOOLEAN, env \in SubEnvs :
       Call_rdpts_Client_ctor(i, sink, env)
  \/ \E i \in SubSlots, unadvise \in HResults :
       Call_Advise_sink_connection_dtor(i, unadvise)
  \/ \E i \in SubSlots, unadvise \in HResults :
       Call_Basic_rdp_peer_dtor(i, unadvise)
  \/ \E i \in SubSlots, disconnect \in HResults, unadvise \in HResults :
       Call_rdp_Client_dtor(i, disconnect, unadvise)
  \/ \E i \in SubSlots, disconnect \in HResults, unadvise \in HResults :
       Call_rdpts_Client_dtor(i, disconnect, unadvise)

SpecSub == Init /\ [][NextSub]_vars

\* The answer of IWbemClassObject::Get to one call.
ValEnv(err, type, payload, flavor) ==
  [err |-> err, type |-> type, payload |-> payload, flavor |-> flavor]

NextVal ==
  \/ \E v \in ValSlots, empty \in BOOLEAN, err \in HResults,
        type \in CimTypes, flavor \in {0, 1} :
       \E payload \in Payloads(type) :
         Call_ClassObject_value(v, empty, ValEnv(err, type, payload, flavor))
  \/ \E v \in ValSlots, acc \in Accessors : Call_Value_as(v, acc)
  \/ \E v \in ValSlots : Call_Value_dtor(v)

SpecVal == Init /\ [][NextVal]_vars

\* ------------------------------------------------------------- failures
Raised(outcome) == outcome \notin {"ok", "terminate"}

\* The base class an exception is caught as: std::invalid_argument is a
\* std::logic_error, Win_error is a std::runtime_error.
Base(type) ==
  CASE type = "invalid_argument" -> "logic_error"
    [] type = "Win_error" -> "runtime_error"
    [] OTHER -> type

\* The last call of a trace that did not return S_OK, if any.
FailedCalls(tr) == {k \in DOMAIN tr : tr[k].hr # S_OK}

FailedCall(tr) ==
  IF FailedCalls(tr) = {} THEN Ev("argument", NoToken, S_OK)
  ELSE tr[CHOOSE k \in FailedCalls(tr) : \A j \in FailedCalls(tr) : j <= k]

Raise(f) ==
  /\ errA' = errB
  /\ errB' = f
  /\ UNCHANGED <<hvars, svars, vvars, nvars>>

\* The references failed constructions may leave held before the model
\* stops constructing.
MaxLeaked == 2

\* The answers to a construction that fails: no advise succeeds, so the
\* token is never looked at.
ErrEnvs == {e \in SubEnvs : e.token = 1}

\* The types of the payloads whose accessors are called.
ErrTypes == {"CIM_STRING", "CIM_SINT32", "CIM_BOOLEAN"}

\* A constructor of a subscription fails: the failure is raised and the
\* references the constructor took and did not give back stay held.  No
\* object exists afterwards.
RaiseS(f, s) ==
  /\ SumHeld(s.held) <= MaxLeaked
  /\ errA' = errB
  /\ errB' = f
  /\ held' = s.held
  /\ advised' = s.advised
  /\ UNCHANGED <<sub, trace, lastS>>
  /\ UNCHANGED <<hvars, vvars, nvars>>

\* api() of an empty handle.
Err_Unknown_api_api(x) ==
  LET m == Unknown_api_api([Machine EXCEPT !.api_[x] = Null], x)
  IN /\ Raised(m.outcome)
     /\ Raise(Failure("Unknown_api::api", "check", S_OK, m.outcome, <<>>))

\* query() of a null pointer, or of a resource the caller holds.
Err_Unknown_api_query(x, unknown, iid) ==
  LET m == Unknown_api_query(
             IF unknown = Null THEN Machine
             ELSE [Machine EXCEPT !.rc[unknown] = 1],
             x, unknown, iid)
  IN /\ Raised(m.outcome)
     /\ Raise(IF m.calls = <<>>
              THEN Failure("Unknown_api::query", "argument", S_OK, m.outcome,
                           <<>>)
              ELSE Failure("Unknown_api::query", m.calls[Len(m.calls)].fn,
                           m.calls[Len(m.calls)].hr, m.outcome, <<>>))

Err_Advise_sink_connection_ctor(sink, env) ==
  LET s == Advise_sink_connection_ctor(
             SMachine([NoSub EXCEPT !.kind = "Advise_sink_connection"]),
             sink, env)
  IN /\ env.create = S_OK /\ env.created /\ env.token \notin advised
     /\ Raised(s.outcome)
     /\ RaiseS(Failure("Advise_sink_connection", FailedCall(s.trace).fn,
                        FailedCall(s.trace).hr, s.outcome, s.code), s)

Err_Basic_rdp_peer_ctor(com, sink, env) ==
  LET s == Basic_rdp_peer_ctor(SMachine([NoSub EXCEPT !.kind = "Basic_rdp_peer"]),
                               com, sink, env)
  IN /\ env.create = S_OK /\ env.created /\ env.token \notin advised
     /\ Raised(s.outcome)
     /\ RaiseS(Failure("Basic_rdp_peer", FailedCall(s.trace).fn,
                        FailedCall(s.trace).hr, s.outcome, s.code), s)

\* An accessor of a Value holding a payload of a type.
Err_Value_as(acc, type, payload) ==
  LET s == Value_as(acc, VMachine([type |-> type,
                                   data |-> VariantOf(type, payload),
                                   flavor |-> 0]))
  IN /\ Raised(s.outcome)
     /\ Raise(Failure(acc, "type", S_OK, s.outcome, s.code))

Err_ClassObject_value(err) ==
  LET s == ClassObject_value(VMachine(NoValue), FALSE,
                             ValEnv(err, "CIM_REAL64", 0, 0))
  IN /\ Raised(s.outcome)
     /\ Raise(Failure("ClassObject::value", FailedCall(s.trace).fn,
                      FailedCall(s.trace).hr, s.outcome, s.code))

\* The construction of the base of rdpts::Client: CoCreateInstance.
Err_rdpts_Client_ctor(sink, env) ==
  LET s == rdpts_Client_ctor(SMachine([NoSub EXCEPT !.kind = "rdpts::Client"]),
                             sink, env)
  IN /\ env.create # S_OK => ~env.created
     /\ env.token \notin advised
     /\ Raised(s.outcome)
     /\ RaiseS(Failure("rdpts::Client", FailedCall(s.trace).fn,
                        FailedCall(s.trace).hr, s.outcome, s.code), s)

\* api() of an empty Basic_com_object, and detail::api of an empty handle
\* of either class: the exception of check() cannot leave the noexcept
\* function.
Err_Basic_com_object_api(x) ==
  LET m == Basic_com_object_api([Machine EXCEPT !.api_[x] = Null], x)
  IN /\ x \in BcoSlots
     /\ Raise(Failure("Basic_com_object::api", "check", S_OK, m.outcome,
                      <<>>))

Err_detail_api(x) ==
  LET m == detail_api([Machine EXCEPT !.api_[x] = Null], x)
  IN /\ x \in Slots
     /\ Raise(Failure("detail::api", "check", S_OK, m.outcome, <<>>))

\* open() of a closed server and close() of an open one, the call failing.
Err_Server_open(err) ==
  LET s == Server_open([SrvMachine(1) EXCEPT !.is_open_ = FALSE], err)
  IN /\ Raised(s.outcome)
     /\ Raise(Failure("Server::open", FailedCall(s.trace).fn,
                      FailedCall(s.trace).hr, s.outcome, s.code))

Err_Server_close(err) ==
  LET s == Server_close([SrvMachine(1) EXCEPT !.is_open_ = TRUE], err)
  IN /\ Raised(s.outcome)
     /\ Raise(Failure("Server::close", FailedCall(s.trace).fn,
                      FailedCall(s.trace).hr, s.outcome, s.code))

\* Status codes: the named ones, and others of either sign.
StatusCodes ==
  {S_OK, S_FALSE, E_FAIL, E_NOINTERFACE, E_OUTOFMEMORY, -1, 2147483647}

\* The outcome of throw_if_error and of the macro for a status, a status
\* that raises nothing included.
Err_throw_if_error(err) ==
  LET s == throw_if_error(SMachine(NoSub), err, "message")
  IN /\ err \in StatusCodes
     /\ Raise(Failure("throw_if_error", "HRESULT", err, s.outcome, s.code))

Err_DMITIGR_WINCOM_THROW_IF_ERROR(err) ==
  LET s == DMITIGR_WINCOM_THROW_IF_ERROR(SMachine(NoSub), err, "message")
  IN /\ err \in StatusCodes
     /\ Raise(Failure("DMITIGR_WINCOM_THROW_IF_ERROR", "HRESULT", err,
                      s.outcome, s.code))

NextErr ==
  \/ \E x \in UaSlots : Err_Unknown_api_api(x)
  \/ \E x \in UaSlots, unknown \in Ptrs, iid \in Iids :
       Err_Unknown_api_query(x, unknown, iid)
  \/ \E sink \in BOOLEAN, env \in ErrEnvs :
       Err_Advise_sink_connection_ctor(sink, env)
  \/ \E com \in {"null", "empty", "valid"}, sink \in BOOLEAN, env \in ErrEnvs :
       Err_Basic_rdp_peer_ctor(com, sink, env)
  \/ \E acc \in Accessors, type \in ErrTypes :
       \E payload \in Payloads(type) : Err_Value_as(acc, type, payload)
  \/ \E err \in HResults : Err_ClassObject_value(err)
  \/ \E sink \in BOOLEAN, env \in ErrEnvs : Err_rdpts_Client_ctor(sink, env)
  \/ \E err \in StatusCodes : Err_throw_if_error(err)
  \/ \E err \in StatusCodes : Err_DMITIGR_WINCOM_THROW_IF_ERROR(err)
  \/ \E x \in Slots : Err_Basic_com_object_api(x)
  \/ \E x \in Slots : Err_detail_api(x)
  \/ \E err \in StatusCodes : Err_Server_open(err)
  \/ \E err \in StatusCodes : Err_Server_close(err)

SpecErr == Init /\ [][NextErr]_vars

NextRdp ==
  \/ \E r \in Res : Obtain(r)
  \/ \E r \in Res : RawRelease(r)
  \/ \E x \in Slots, p \in Ptrs : Call_Unknown_api_ctor_raw(x, p)
  \/ \E x \in Slots : Call_Unknown_api_dtor(x)
  \/ \E x, this \in Slots, info \in Ptrs :
       Call_Attendee_tcp_connection_info(x, this, info)
  \/ \E x, this \in Slots, index \in Indexes, count \in 0..MaxItems,
        item \in Ptrs :
       Call_Invitation_manager_invitation(x, this, index, count, item)
  \/ \E x, this \in Slots, err \in {S_OK, S_FALSE, E_FAIL}, invitation \in Ptrs :
       Call_Invitation_manager_create_invitation(x, this, err, invitation)

SpecRdp == Init /\ [][NextRdp]_vars

NextHost ==
  \/ \E i \in SubSlots, sink \in BOOLEAN, env \in SubEnvs :
       Call_Hosted_Client_ctor(i, sink, env)
  \/ \E i \in SubSlots, disconnect, unadvise \in HResults :
       Call_Hosted_Client_dtor(i, disconnect, unadvise)
  \/ \E i \in SubSlots : Window_Release(i)

SpecHost == Init /\ [][NextHost]_vars

NextThr ==
  \/ \E t \in Threads, dst, src \in Own, op \in {"copy", "move"} :
       Thread_ctor_init(t, dst, src, op)
  \/ \E t \in Threads : Thread_copy_body(t)
  \/ \E t \in Threads : Thread_move_body(t)
  \/ \E t \in Threads, k \in Own : Thread_dtor_release(t, k)
  \/ \E t \in Threads : Thread_dtor_reset(t)

SpecThr == Init /\ [][NextThr]_vars

NextSrv ==
  \/ \E i \in Servers, err \in HResults : Call_Server_open(i, err)
  \/ \E i \in Servers, err \in HResults : Call_Server_close(i, err)
  \/ \E i \in Servers : Call_Server_is_open(i)
  \/ \E i \in Servers, err \in {S_OK, E_FAIL} : Call_Server_pause(i, err)
  \/ \E i \in Servers, err \in {S_OK, E_FAIL} : Call_Server_resume(i, err)
  \/ \E i \in Servers, getter \in Getters, err \in {S_OK, E_FAIL},
        api \in BOOLEAN :
       Call_Server_get(i, getter, err, api)

SpecSrv == Init /\ [][NextSrv]_vars

NextSink ==
  \/ \E k \in Sinks : Call_Advise_sink_AddRef(k)
  \/ \E k \in Sinks : Call_Advise_sink_Release(k)
  \/ \E k \in Sinks, id \in SinkIids, object \in BOOLEAN :
       Call_Advise_sink_QueryInterface(k, id, object)

SpecSink == Init /\ [][NextSink]_vars

TypeOK ==
  /\ api_ \in [AllSlots -> Ptrs]
  /\ live \subseteq Slots
  /\ \A x \in AllSlots \ live : api_[x] = Null

\* ------------------------------------------------------------------ claims
HandlesAt(r) == {x \in live : api_[x] = r}

Release1(r) == <<Call("Release", r, S_OK)>>

\* std::invalid_argument derives from std::logic_error, the exception of check().
PreconditionViolation == {"logic_error", "invalid_argument"}

RawCtors == {"Unknown_api(Api*)", "Basic_com_object(ObjectInterface*)"}
MoveCtors == {"Unknown_api(Unknown_api&&)", "Basic_com_object(Basic_com_object&&)"}
Dtors == {"~Unknown_api", "~Basic_com_object"}
Queries == {"Unknown_api::query", "Ptr::to"}
UaMethods ==
  {"Unknown_api::api", "Invitation::revoke", "Invitation::is_revoked",
   "Ptr::get", "Ptr::operator->", "Ptr::to"}
BcoMethods ==
  {"Basic_com_object::api", "Authorized_application::set_enabled",
   "Authorized_application::is_enabled"}

\* C1: after any sequence of handle operations every non-empty handle
\* denotes one claimed reference: per resource, the references owned through
\* handles (acquired less released) are as many as the live non-empty handles
\* pointing at it, the resource's count is these plus the caller's raw
\* references, and copy-constructing from a non-empty handle issues exactly
\* one AddRef.
C1_ClaimedReferences ==
  /\ \A r \in Res :
       /\ acquired[r] - released[r] = Cardinality(HandlesAt(r))
       /\ ref_count[r] = raw[r] + Cardinality(HandlesAt(r))
  /\ api_[Tmp] = Null
  /\ last.op = "Unknown_api(const Unknown_api&)" /\ last.p # Null
       => calls = <<Call("AddRef", last.p, S_OK)>>

C1_Witness ==
  /\ last.op = "Unknown_api(const Unknown_api&)" /\ last.p # Null
  /\ Cardinality(HandlesAt(last.p)) = 2
  /\ ref_count[last.p] = 2

\* C2: once every handle of a resource is destroyed, as many Release calls
\* were issued as references were claimed by handles (N for N copies) and the
\* count is back at its baseline, the references held outside handles; the
\* acquire, copy, destroy, destroy scenario ends with two Release calls and a
\* count of zero.
C2_AllCopiesReleased ==
  \A r \in Res :
    HandlesAt(r) = {} => released[r] = acquired[r] /\ ref_count[r] = raw[r]

C2_Witness ==
  \E r \in Res :
    /\ last.op = "~Unknown_api" /\ last.p = r
    /\ HandlesAt(r) = {}
    /\ acquired[r] = 2 /\ released[r] = 2
    /\ raw[r] = 0 /\ ref_count[r] = 0

\* C3: constructing a handle from a non-null raw reference issues no call
\* at all (so no AddRef) and the handle holds that pointer; destroying it
\* right afterwards issues exactly one Release.
C3_RawCtorTakesOver ==
  /\ last.op \in RawCtors /\ last.p # Null
       => calls = <<>> /\ last.x \in live /\ api_[last.x] = last.p
  /\ last.op \in Dtors /\ last.prev \in RawCtors /\ last.p # Null
       => calls = Release1(last.p)

C3_Witness ==
  /\ last.op = "~Basic_com_object"
  /\ last.prev = "Basic_com_object(ObjectInterface*)"
  /\ last.p # Null
  /\ calls = Release1(last.p)

\* C4 as stated: constructing a handle from a null raw reference fails with
\* a precondition violation and no handle results.
C4_NullRawFails ==
  last.op \in RawCtors /\ last.p = Null
    => last.outcome \in PreconditionViolation /\ last.x \notin live

\* C4 amended: constructing a handle from a null raw reference succeeds and
\* yields an empty handle, without any call into a resource.
C4_NullRawYieldsEmpty ==
  last.op \in RawCtors /\ last.p = Null
    => /\ last.outcome = "ok"
       /\ last.x \in live
       /\ api_[last.x] = Null
       /\ calls = <<>>

C4_Witness ==
  /\ last.op = "Unknown_api(Api*)" /\ last.p = Null
  /\ last.x \in live /\ api_[last.x] = Null

\* C5: move-construction hands the source's pointer to the new handle,
\* leaves the source empty and issues neither AddRef nor Release.
C5_MoveCtorTransfers ==
  last.op \in MoveCtors
    => /\ last.x \in live /\ last.rhs \in live
       /\ api_[last.x] = last.p
       /\ api_[last.rhs] = Null
       /\ calls = <<>>

C5_Witness ==
  /\ last.op = "Unknown_api(Unknown_api&&)" /\ last.p # Null
  /\ api_[last.x] = last.p /\ api_[last.rhs] = Null

\* C6: destroying a handle issues exactly one Release if it was non-empty
\* and none if it was empty, leaves the pointer null, and raises nothing.
C6_DtorReleasesOnce ==
  last.op \in Dtors
    => /\ calls = (IF last.p # Null THEN Release1(last.p) ELSE <<>>)
       /\ api_[last.x] = Null
       /\ last.x \notin live
       /\ last.outcome = "ok"

C6_Witness ==
  /\ last.op = "~Basic_com_object" /\ last.p # Null
  /\ calls = Release1(last.p) /\ api_[last.x] = Null

\* C7: query on a non-null source that does not implement the requested
\* interface fails with std::runtime_error (capability not supported), makes
\* no handle, and calls nothing but the failed QueryInterface, so the
\* source's count stays what its owners account for.
C7_QueryUnsupported ==
  last.op = "Unknown_api::query" /\ last.p # Null
    /\ last.iid \notin Implements(last.p)
    => /\ last.outcome = "runtime_error"
       /\ last.x \notin live /\ api_[last.x] = Null
       /\ calls = <<Call("QueryInterface", last.p, E_NOINTERFACE)>>
       /\ ref_count[last.p] = raw[last.p] + Cardinality(HandlesAt(last.p))

C7_Witness ==
  /\ last.op = "Unknown_api::query" /\ last.p # Null
  /\ last.iid \notin Implements(last.p)
  /\ last.outcome = "runtime_error"
  /\ ref_count[last.p] > 0

\* C8: a successful query (or Ptr::to) returns a new handle on the same
\* resource owning the one reference QueryInterface added; destroying that
\* handle right afterwards gives the reference back with one Release and
\* leaves the source's reference in place.
C8_QueryOwnsOneReference ==
  /\ last.op \in Queries /\ last.outcome = "ok"
       => /\ last.x \in live /\ api_[last.x] = last.p
          /\ calls = <<Call("QueryInterface", last.p, S_OK)>>
          /\ ref_count[last.p] >= 2
          /\ ref_count[last.p] = raw[last.p] + Cardinality(HandlesAt(last.p))
  /\ last.op = "~Unknown_api" /\ last.prev \in Queries /\ last.p # Null
       => /\ calls = Release1(last.p)
          /\ ref_count[last.p] >= 1
          /\ ref_count[last.p] = raw[last.p] + Cardinality(HandlesAt(last.p))

C8_Witness ==
  /\ last.op = "~Unknown_api" /\ last.prev = "Unknown_api::query"
  /\ last.p # Null
  /\ ref_count[last.p] = 1

\* C9 as stated: any method invoked on an empty Unknown_api-derived handle,
\* Ptr::get, Ptr::operator-> and Ptr::to included, fails with a
\* precondition violation before any call into the resource.
C9_EmptyHandleMethodFails ==
  last.op \in UaMethods /\ last.p = Null
    => last.outcome \in PreconditionViolation /\ calls = <<>>

\* C10 as stated: api(), and so any facade method, on an empty
\* Basic_com_object fails with a precondition violation the caller can
\* handle, not with the termination of the process.
C10_EmptyObjectFailureIsCatchable ==
  last.op \in BcoMethods /\ last.p = Null
    => last.outcome \in PreconditionViolation

\* ------------------------------------------------ claims: subscriptions
\* The positions of the calls named fn in a trace.
At(tr, fn) == {k \in DOMAIN tr : tr[k].fn = fn}

\* The names of the calls of a trace that are among fns, in order.
Project(tr, fns) ==
  LET sel == SelectSeq(tr, LAMBDA e : e.fn \in fns)
  IN [k \in DOMAIN sel |-> sel[k].fn]

Live == {i \in SubSlots : sub[i].kind # "none"}

Teardown == {"Unadvise", "point_->Release", "point_container_->Release"}

\* C12: a successful construction of a subscription performs exactly one
\* Advise and stores the token it returned; live instances hold one
\* registered token each, no two the same; destruction performs exactly one
\* Unadvise, with the stored token.
C12_OneAdviseOneUnadvise ==
  /\ lastS.op = "ctor" /\ lastS.outcome = "ok" =>
       /\ Cardinality(At(trace, "Advise")) = 1
       /\ \A k \in At(trace, "Advise") :
            /\ trace[k].hr = S_OK
            /\ trace[k].arg = sub[lastS.i].sink_connection_token_
  /\ \A i \in Live : sub[i].sink_connection_token_ \in advised
  /\ \A i, j \in Live :
       i # j => sub[i].sink_connection_token_ # sub[j].sink_connection_token_
  /\ lastS.op = "dtor" /\ lastS.outcome = "ok" =>
       /\ Cardinality(At(trace, "Unadvise")) = 1
       /\ \A k \in At(trace, "Unadvise") :
            trace[k].arg = lastS.before.sink_connection_token_

C12_Witness ==
  /\ lastS.op = "dtor" /\ lastS.kind = "Advise_sink_connection"
  /\ lastS.before.sink_connection_token_ \in Tokens
  /\ Cardinality(At(trace, "Unadvise")) = 1
  /\ \E i \in Live : sub[i].kind = "Advise_sink_connection"

\* C13 as stated: when FindConnectionPoint fails, no Advise is performed, no
\* token is stored, and the container reference obtained before is released
\* before the failure is reported.
C13_FindFailureReleasesContainer ==
  lastS.op = "ctor" /\ lastS.env.find # S_OK /\ At(trace, "FindConnectionPoint") # {}
    => /\ lastS.outcome \notin {"ok", "terminate"}
       /\ At(trace, "Advise") = {}
       /\ sub[lastS.i] = NoSub
       /\ At(trace, "point_container_->Release") # {}

\* C14 as stated: when Advise fails, a registration failure is raised, no
\* subscription is active, and the point and the container are both
\* released before the failure surfaces.
C14_AdviseFailureReleasesBoth ==
  lastS.op = "ctor" /\ lastS.env.advise # S_OK /\ At(trace, "Advise") # {}
    => /\ lastS.outcome = "runtime_error"
       /\ lastS.what = "cannot get sink connection token"
       /\ sub[lastS.i] = NoSub
       /\ At(trace, "point_->Release") # {}
       /\ At(trace, "point_container_->Release") # {}

\* C15: the destructor of a subscription calls Unadvise, then releases the
\* point, then releases the container, each exactly once.
C15_TeardownOrder ==
  lastS.op = "dtor" /\ lastS.outcome = "ok" =>
    Project(trace, Teardown) =
      <<"Unadvise", "point_->Release", "point_container_->Release">>

C15_Witness ==
  /\ lastS.op = "dtor" /\ lastS.kind = "Advise_sink_connection"
  /\ lastS.before.point_ /\ lastS.before.point_container_
  /\ Len(trace) = 4

\* C16: the sink is destroyed only after Unadvise, in Advise_sink_connection,
\* Basic_rdp_peer and rdp::Client; in Basic_rdp_peer the wrapped COM object
\* is released only after the sink was unregistered.
C16_SinkOutlivesSubscription ==
  lastS.op = "dtor" /\ lastS.outcome = "ok" =>
    /\ At(trace, "Unadvise") # {}
    /\ At(trace, "delete sink_") # {}
    /\ \A u \in At(trace, "Unadvise"), d \in At(trace, "delete sink_") : u < d
    /\ lastS.kind \in {"Basic_rdp_peer", "rdp::Client"} =>
         /\ At(trace, "api_->Release") # {}
         /\ \A u \in At(trace, "Unadvise"),
               d \in At(trace, "api_->Release") \cup At(trace, "delete com_") :
              u < d

C16_Witness ==
  /\ lastS.op = "dtor" /\ lastS.kind = "rdp::Client"
  /\ At(trace, "Disconnect") # {}
  /\ \E u \in At(trace, "Unadvise"), d \in At(trace, "api_->Release") : u < d

\* C17: when Unadvise fails, or Disconnect in the destructors of rdp::Client
\* and rdpts::Client, the destructor raises nothing and still performs
\* every remaining release step.
C17_TeardownFailuresSwallowed ==
  lastS.op = "dtor" /\ (lastS.unadvise # S_OK \/ lastS.disconnect # S_OK) =>
    /\ lastS.outcome = "ok"
    /\ sub[lastS.i] = NoSub
    /\ Project(trace, Teardown) =
         <<"Unadvise", "point_->Release", "point_container_->Release">>
    /\ At(trace, "delete sink_") # {}
    /\ lastS.kind # "Advise_sink_connection" => At(trace, "api_->Release") # {}

C17_Witness ==
  /\ lastS.op = "dtor" /\ lastS.kind = "rdpts::Client"
  /\ lastS.disconnect = E_OUTOFMEMORY /\ lastS.unadvise = E_FAIL
  /\ lastS.outcome = "ok"
  /\ At(trace, "api_->Release") # {}

\* ------------------------------------------------------- claims: values
\* The tag each accessor expects.
ExpectedTag(acc) ==
  CASE acc \in {"as_string", "as_wstring"} -> "CIM_STRING"
    [] acc = "as_int8" -> "CIM_SINT8"
    [] acc = "as_uint8" -> "CIM_UINT8"
    [] acc = "as_int16" -> "CIM_SINT16"
    [] acc = "as_uint16" -> "CIM_UINT16"
    [] acc = "as_int32" -> "CIM_SINT32"
    [] acc = "as_uint32" -> "CIM_UINT32"
    [] acc = "as_int64" -> "CIM_SINT64"
    [] acc = "as_uint64" -> "CIM_UINT64"
    [] acc = "as_bool" -> "CIM_BOOLEAN"
    [] acc = "as_date" -> "CIM_DATETIME"

\* The value an accessor is to return for a payload handed out by Get.
Decoded(acc, payload) ==
  CASE acc \in {"as_string", "as_wstring"} -> detail_str(payload)
    [] acc = "as_bool" -> (payload = VARIANT_TRUE)
    [] OTHER -> payload

\* The names a message can give to a category.
CategoryNames(type) ==
  CASE type = "CIM_STRING" -> {"string", "CIM_STRING"}
    [] type = "CIM_SINT8" -> {"int8", "CIM_SINT8"}
    [] type = "CIM_UINT8" -> {"uint8", "CIM_UINT8"}
    [] type = "CIM_SINT16" -> {"int16", "CIM_SINT16"}
    [] type = "CIM_UINT16" -> {"uint16", "CIM_UINT16"}
    [] type = "CIM_SINT32" -> {"int32", "CIM_SINT32"}
    [] type = "CIM_UINT32" -> {"uint32", "CIM_UINT32"}
    [] type = "CIM_SINT64" -> {"int64", "CIM_SINT64"}
    [] type = "CIM_UINT64" -> {"uint64", "CIM_UINT64"}
    [] type = "CIM_BOOLEAN" -> {"bool", "CIM_BOOLEAN"}
    [] type = "CIM_DATETIME" -> {"DATE", "CIM_DATETIME"}
    [] type = "CIM_REAL64" -> {"real64", "double", "CIM_REAL64"}

Words(what) == {what[k] : k \in DOMAIN what}

TypeMismatch == {"logic_error"}

LiveVals == {v \in ValSlots : val[v].type # "none"}

\* C18: an accessor of a Value succeeds, returning the payload Get stored,
\* exactly when the tag of the value is the tag the accessor expects;
\* otherwise it fails with a type mismatch and returns nothing.
C18_AccessorChecksTag ==
  lastV.op = "as" =>
    IF lastV.before.type = ExpectedTag(lastV.acc)
    THEN /\ lastV.outcome = "ok"
         /\ \E payload \in Payloads(lastV.before.type) :
              /\ lastV.before.data = VariantOf(lastV.before.type, payload)
              /\ lastV.result = Decoded(lastV.acc, payload)
    ELSE /\ lastV.outcome \in TypeMismatch
         /\ lastV.result = NoValOp.result

C18_Witness ==
  /\ lastV.op = "as" /\ lastV.acc = "as_int16"
  /\ lastV.before.type = "CIM_SINT16"
  /\ lastV.outcome = "ok" /\ lastV.result = -1

\* C19 as stated: the failure of an accessor on a value of another tag
\* names the attempted category and the category actually stored.
C19_MismatchNamesBoth ==
  lastV.op = "as" /\ lastV.outcome \in TypeMismatch =>
    /\ CategoryNames(ExpectedTag(lastV.acc)) \cap Words(lastV.what) # {}
    /\ CategoryNames(lastV.before.type) \cap Words(lastV.what) # {}

\* C19, amended: the failure of an accessor on a value of another tag names
\* the attempted category only; the message does not depend on the
\* category actually stored.
C19_MismatchNamesAttempted ==
  lastV.op = "as" /\ lastV.outcome \in TypeMismatch =>
    /\ CategoryNames(ExpectedTag(lastV.acc)) \cap Words(lastV.what) # {}
    /\ CategoryNames(lastV.before.type) \cap Words(lastV.what) = {}

C19_Witness ==
  /\ lastV.op = "as" /\ lastV.acc = "as_date"
  /\ lastV.before.type = "CIM_BOOLEAN"
  /\ lastV.outcome = "logic_error"
  /\ "DATE" \in Words(lastV.what)

\* C20: every payload Get handed out is owned by exactly one live Value or
\* was cleared exactly once; value() clears nothing, whether Get succeeds
\* or fails, and a failed Get leaves no Value; the destructor issues
\* exactly one VariantClear.
C20_PayloadClearedOnce ==
  /\ made = cleared + Cardinality(LiveVals)
  /\ lastV.op = "value" => At(vtrace, "VariantClear") = {}
  /\ lastV.op = "value" /\ lastV.outcome = "ok" =>
       /\ Cardinality(At(vtrace, "Get")) = 1
       /\ lastV.v \in LiveVals
  /\ lastV.op = "value" /\ lastV.outcome # "ok" => lastV.v \notin LiveVals
  /\ lastV.op = "dtor" =>
       /\ Cardinality(At(vtrace, "VariantClear")) = 1
       /\ lastV.v \notin LiveVals

C20_Witness ==
  /\ lastV.op = "dtor" /\ lastV.before.type = "CIM_STRING"
  /\ made = 2 /\ cleared = 2

\* ----------------------------------------------------- claims: failures
Kinds ==
  {"precondition violation", "capability-not-supported",
   "registration-failed", "type-mismatch", "resource-exhausted"}

\* The kind of the error taxonomy a failure belongs to: resource-exhausted
\* when the external call answered E_OUTOFMEMORY, otherwise by the step
\* that failed; "external" is a failure status outside the five kinds.
KindOf(f) ==
  CASE f.hr = E_OUTOFMEMORY -> "resource-exhausted"
    [] f.site \in {"check", "argument"} -> "precondition violation"
    [] f.site = "QueryInterface" -> "capability-not-supported"
    [] f.site \in {"FindConnectionPoint", "Advise"} -> "registration-failed"
    [] f.site = "type" -> "type-mismatch"
    [] OTHER -> "external"

\* The functions that return a handle's interface and are noexcept.
NoexceptApi == {"Basic_com_object::api", "detail::api"}

\* The steps whose status goes through throw_if_error.
ThroughThrowIfError == {"HRESULT", "Get"}

\* The steps whose failure is thrown as Win_error by the caller itself.
ThrownAsWinError == {"CoCreateInstance", "Open", "Close"}

BothRaised == errA # NoFailure /\ errB # NoFailure

\* C11 as stated: failures of two different kinds among the five are never
\* reported with the same error type.
C11_KindsPairwiseDistinct ==
  /\ BothRaised
  /\ KindOf(errA) \in Kinds /\ KindOf(errB) \in Kinds
  /\ KindOf(errA) # KindOf(errB)
  => Base(errA.type) # Base(errB.type)

\* C11, amended: the type of the error follows the code path, not the
\* kind.  Type-mismatch is std::logic_error.  Precondition violation is
\* std::logic_error (std::invalid_argument for a null argument), except in
\* the noexcept Basic_com_object::api and detail::api, where it is not
\* reported: the process is terminated.  Capability-not-supported and
\* registration-failed are std::runtime_error.  Resource-exhausted is
\* std::bad_alloc where the status goes through throw_if_error; from the
\* creation of a COM object or Open/Close of a server it is Win_error, a
\* std::runtime_error, and from a step of a subscription a plain
\* std::runtime_error.
C11_TypeFollowsCodePath ==
  (errB # NoFailure /\ KindOf(errB) \in Kinds) =>
    CASE KindOf(errB) = "type-mismatch" -> errB.type = "logic_error"
      [] KindOf(errB) = "precondition violation" ->
           IF errB.op \in NoexceptApi THEN errB.type = "terminate"
           ELSE /\ Base(errB.type) = "logic_error"
                /\ errB.type = "invalid_argument" => errB.site = "argument"
      [] KindOf(errB) \in {"capability-not-supported",
                           "registration-failed"} ->
           errB.type = "runtime_error"
      [] KindOf(errB) = "resource-exhausted" ->
           IF errB.site \in ThroughThrowIfError THEN errB.type = "bad_alloc"
           ELSE IF errB.site \in ThrownAsWinError
           THEN errB.type = "Win_error" /\ errB.code = <<E_OUTOFMEMORY>>
           ELSE errB.type = "runtime_error"

\* Out of memory at the creation of a COM object is reported with the type
\* a failed registration is reported with, while the same status of a
\* value retrieval is a std::bad_alloc.
C11_Witness ==
  /\ KindOf(errA) = "registration-failed" /\ errA.type = "runtime_error"
  /\ KindOf(errB) = "resource-exhausted"
  /\ errB.site = "CoCreateInstance" /\ errB.type = "Win_error"

\* ---------------------------------------------------- claims: assignment
MoveAssigns == {"operator=(Unknown_api&&)", "operator=(Basic_com_object&&)"}

\* C25: move-assigning handle B to another handle A issues one Release, on
\* the resource A held before (none if A was empty), and no AddRef; A holds
\* the pointer B held and B is empty.  Move-assigning a handle to itself
\* issues no call and leaves its pointer unchanged.
C25_MoveAssign ==
  last.op \in MoveAssigns =>
    /\ last.outcome = "ok"
    /\ api_[last.x] = last.p
    /\ IF last.x # last.rhs
       THEN /\ api_[last.rhs] = Null
            /\ calls = IF last.q = Null THEN <<>> ELSE Release1(last.q)
       ELSE calls = <<>>

C25_Witness ==
  /\ last.op \in MoveAssigns /\ last.x # last.rhs
  /\ last.p # Null /\ last.q # Null
  /\ calls = Release1(last.q)

\* C26: copy-assigning handle B to handle A issues the AddRef on the
\* resource of B before the Release on the resource A held before; when
\* both are the same resource the count is left as it was and is at least
\* one after each of the two calls.
C26_CopyAssignAddRefFirst ==
  last.op = "operator=(const Unknown_api&)" =>
    /\ last.outcome = "ok"
    /\ api_[last.x] = last.p /\ api_[last.rhs] = last.p
    /\ calls = (IF last.p = Null THEN <<>>
                ELSE <<Call("AddRef", last.p, S_OK)>>)
               \o (IF last.q = Null THEN <<>> ELSE Release1(last.q))
    /\ last.p # Null /\ last.p = last.q =>
         /\ Gained(calls, last.p) = Dropped(calls, last.p)
         /\ ref_count[last.p] >= 1

C26_Witness ==
  /\ last.op = "operator=(const Unknown_api&)" /\ last.x = last.rhs
  /\ last.p # Null /\ Len(calls) = 2

\* ------------------------------------------------- claims: status codes
ExternalCalls ==
  {"QueryInterface", "FindConnectionPoint", "Advise", "CoCreateInstance",
   "Get"}

\* C21 as stated: the failure of an external call surfaced by a core
\* operation carries the status code the external call returned.
C21_FailureCarriesStatus ==
  Raised(errB.type) /\ errB.site \in ExternalCalls => errB.code = <<errB.hr>>

\* C21, amended: a failure of COM object creation or of value retrieval is
\* a Win_error carrying the status the external call returned, except
\* E_OUTOFMEMORY from value retrieval, a std::bad_alloc without it; a
\* failure of the capability query or of a subscription step is a
\* std::runtime_error that carries no status code.
C21_OnlyWinErrorCarriesStatus ==
  Raised(errB.type) /\ errB.site \in ExternalCalls =>
    CASE errB.site = "CoCreateInstance" ->
           errB.type = "Win_error" /\ errB.code = <<errB.hr>>
      [] errB.site = "Get" /\ errB.hr = E_OUTOFMEMORY ->
           errB.type = "bad_alloc" /\ errB.code = <<>>
      [] errB.site = "Get" /\ errB.hr # E_OUTOFMEMORY ->
           errB.type = "Win_error" /\ errB.code = <<errB.hr>>
      [] OTHER -> errB.type = "runtime_error" /\ errB.code = <<>>

C21_Witness ==
  /\ errA.site = "CoCreateInstance" /\ errA.code = <<E_FAIL>>
  /\ errB.op = "Unknown_api::query" /\ errB.site = "QueryInterface"
  /\ errB.hr = E_NOINTERFACE /\ errB.code = <<>>

ThrowIfError == {"throw_if_error", "DMITIGR_WINCOM_THROW_IF_ERROR"}

\* C23: throw_if_error and DMITIGR_WINCOM_THROW_IF_ERROR raise nothing for
\* a status that is not a failure, S_FALSE included, std::bad_alloc for
\* E_OUTOFMEMORY, and for any other failure a Win_error whose code() is the
\* status; both map a status the same way.
C23_StatusMapping ==
  /\ errB.op \in ThrowIfError =>
       CASE ~FAILED(errB.hr) -> errB.type = "ok" /\ errB.code = <<>>
         [] FAILED(errB.hr) /\ errB.hr = E_OUTOFMEMORY ->
              errB.type = "bad_alloc" /\ errB.code = <<>>
         [] OTHER -> errB.type = "Win_error" /\ errB.code = <<errB.hr>>
  /\ errA.op \in ThrowIfError /\ errB.op \in ThrowIfError
       /\ errA.hr = errB.hr =>
       errA.type = errB.type /\ errA.code = errB.code

C23_Witness ==
  /\ errA.op = "throw_if_error" /\ errA.hr = S_FALSE /\ errA.type = "ok"
  /\ errB.op = "DMITIGR_WINCOM_THROW_IF_ERROR" /\ errB.hr = -1
  /\ errB.type = "Win_error" /\ errB.code = <<-1>>

\* --------------------------------------------------------------------- C27
\* C27 as stated: the reference count of an Advise_sink never wraps around:
\* a Release on a sink whose count is zero returns zero and leaves the count
\* at zero.
C27_ReleaseAtZeroStaysZero ==
  (lastR.op = "Release" /\ lastR.before = ULONG(0))
    => /\ lastR.result = ULONG(0)
       /\ sink_ref_count_[lastR.k] = ULONG(0)

\* --------------------------------------------------------------------- C28
\* C28: is_open() of a server is true exactly when the most recent external
\* call of it that succeeded was Open; open() on an open server and close()
\* on a closed one make no external call; an external call that fails
\* raises Win_error with its status and leaves is_open() as it was.  The
\* calls of the claim are Open and Close: while no other call of the
\* server succeeded since, the most recent one is among them.
C28_OpenCloseFlag ==
  /\ \A i \in Servers :
       /\ Server_is_open(SrvMachine(i)) <=> session[i] = "Open"
       /\ recent[i] \in {"none", "Open", "Close"} =>
            (Server_is_open(SrvMachine(i)) <=> recent[i] = "Open")
  /\ lastSrv.op = "Server::is_open" =>
       lastSrv.result = (session[lastSrv.i] = "Open")
  /\ (lastSrv.op = "Server::open" /\ lastSrv.before) =>
       lastSrv.trace = <<>> /\ lastSrv.outcome = "ok"
  /\ (lastSrv.op = "Server::close" /\ ~lastSrv.before) =>
       lastSrv.trace = <<>> /\ lastSrv.outcome = "ok"
  /\ (/\ lastSrv.op \in {"Server::open", "Server::close"}
      /\ lastSrv.trace # <<>> /\ lastSrv.err # S_OK) =>
       /\ lastSrv.outcome = "Win_error"
       /\ lastSrv.code = <<lastSrv.err>>
       /\ is_open_[lastSrv.i] = lastSrv.before
  /\ (/\ lastSrv.op \in {"Server::open", "Server::close"}
      /\ lastSrv.trace # <<>> /\ lastSrv.err = S_OK) =>
       /\ lastSrv.outcome = "ok"
       /\ is_open_[lastSrv.i] = ~lastSrv.before

\* A close() of an open server failed, beside a server that was opened and
\* closed again.
C28_Witness ==
  /\ lastSrv.op = "Server::close" /\ lastSrv.outcome = "Win_error"
  /\ lastSrv.code = <<E_FAIL>> /\ is_open_[lastSrv.i]
  /\ \E j \in Servers : recent[j] = "Close" /\ ~is_open_[j]

\* --------------------------------------------------------------------- C29
\* C29 as stated: Attendee::tcp_connection_info leaves no reference
\* outstanding other than the one the returned handle owns: the IUnknown
\* that get_ConnectivityInfo answered is released, whether the query for
\* the connection interface succeeds or not.
C29_ConnectivityInfoReleased ==
  (/\ last.op = "Attendee::tcp_connection_info"
   /\ last.outcome = "ok" /\ last.p # Null)
    => /\ \E i \in 1..Len(calls) :
            calls[i].fn = "Release" /\ calls[i].r = last.p
       /\ Gained(calls, last.p) - Dropped(calls, last.p)
            = (IF api_[last.x] = last.p THEN 1 ELSE 0)

\* --------------------------------------------------------------------- C30
\* C30 as stated: Invitation_manager::invitation(index) raises out_of_range
\* before any get_Item for every index outside the range, negative ones
\* included; for an index within the range it returns a non-empty handle
\* or raises a precondition violation.
C30_IndexRangeChecked ==
  (last.op = "Invitation_manager::invitation" /\ last.outcome # "terminate")
    => /\ (last.index < 0 \/ last.index >= last.count) =>
            /\ last.outcome = "out_of_range"
            /\ \A i \in 1..Len(calls) : calls[i].fn # "get_Item"
       /\ (0 <= last.index /\ last.index < last.count) =>
            \/ last.outcome = "ok" /\ last.x \in live /\ api_[last.x] # Null
            \/ last.outcome = "logic_error"

\* --------------------------------------------------------------------- C24
\* C24: an rdpts::Client constructed with an event sink holds one reference
\* on its ActiveX object more than its base releases, so that the one
\* Release of the hosting window, before or after the destruction of the
\* client, never makes the Release of the base destructor one on a count of
\* zero.
C24_HostReleaseTolerated ==
  /\ \A i \in SubSlots :
       /\ ax[i].held.api >= 0
       /\ ax[i].held.api = (IF ax[i].o.kind = "rdpts::Client" THEN 1 ELSE 0)
                            + (IF ax[i].window = "open" THEN 1 ELSE 0)
  /\ (lastA.op = "ctor" /\ lastA.outcome = "ok") =>
       ax[lastA.i].held.api = 2
  /\ (lastA.op \in {"dtor", "window"} /\ lastA.outcome # "terminate") =>
       (\E k \in 1..Len(lastA.trace) : lastA.trace[k].fn = "api_->Release")
         /\ lastA.before >= 1

\* A client destroyed after its window released the object, beside one
\* destroyed whose window has still to release it.
C24_Witness ==
  /\ lastA.op = "dtor" /\ lastA.before = 1
  /\ ax[lastA.i].window = "closed" /\ ax[lastA.i].held.api = 0
  /\ \E j \in SubSlots :
       ax[j].o.kind = "none" /\ ax[j].window = "open" /\ ax[j].held.api = 1

\* --------------------------------------------------------------------- C22
\* The handles of all threads that own a reference: those that exist, hold
\* the resource, and whose destructor has not released it yet.
Owners ==
  {h \in Threads \X Own :
     /\ h[2] \in tlive[h[1]] /\ tapi[h[1]][h[2]] # Null
     /\ ~(pc[h[1]].op = "dtor" /\ pc[h[1]].dst = h[2])}

\* C22: with AddRef and Release atomic, every interleaving of copies, moves
\* and destructions that threads make on handles of their own to one
\* resource leaves the count of the resource equal to the number of live
\* non-empty handles, and no Release is issued on a count of zero.
C22_InterleavedCountBalanced ==
  /\ tcount = Cardinality(Owners)
  /\ (\A t \in Threads : pc[t] = Idle) =>
       tcount = Cardinality({h \in Threads \X Own :
                  h[2] \in tlive[h[1]] /\ tapi[h[1]][h[2]] # Null})
  /\ \A t \in Threads :
       (pc[t].op = "dtor" /\ tapi[t][pc[t].dst] # Null) => pc[t].before >= 1

\* One thread is between the two statements of a copy while another is
\* between the two statements of a destructor that released the resource.
C22_Witness ==
  \E t, u \in Threads :
    /\ pc[t].op = "copy" /\ tapi[t][pc[t].dst] # Null
    /\ pc[u].op = "dtor" /\ tapi[u][pc[u].dst] # Null
    /\ tcount = NumThreads - 1

====
